---- MODULE Spec2Model ----
(***************************************************************************)
(* Binary arithmetic coder of src/glorious/c/src/arithmetic_coding.c:      *)
(* arithmetic_encode followed by arithmetic_decode, with the ring-buffer   *)
(* context, the fixed-point predictor and the bit I/O helpers.             *)
(*                                                                         *)
(* Machine integers.  The coder computes in uint32_t and uint64_t with     *)
(* PRECISION = 31, beyond the range of TLC's integers.  A machine word is  *)
(* therefore a little-endian tuple of 16-bit limbs: a uint32_t is          *)
(* <<lo, hi>> (value lo + 2^16 * hi), a uint64_t has four limbs.  The      *)
(* operators of the first section are C's unsigned operators on them,      *)
(* wrapping modulo 2^32 or 2^64 exactly where C does.                      *)
(***************************************************************************)
EXTENDS Integers, Sequences, FiniteSets, TLC

\* ------------------------------------------------------------------------
\* Unsigned fixed-width arithmetic
\* ------------------------------------------------------------------------

Base == 2^16

\* The uint32_t with value n, for 0 <= n < 2^31.
U32(n) == <<n % Base, n \div Base>>

\* Limb i of a, zero beyond its width.
Limb(a, i) == IF i <= Len(a) THEN a[i] ELSE 0

\* The low w limbs of <<x1, x2, x3, x4>>.
Word(w, x1, x2, x3, x4) ==
  CASE w = 2 -> <<x1, x2>>
    [] w = 3 -> <<x1, x2, x3>>
    [] w = 4 -> <<x1, x2, x3, x4>>

\* Zero-extension to w limbs ((uint64_t)x is Ext(x, 4)); truncation to w limbs
\* ((uint32_t)x is Trunc(x, 2)).
Ext(a, w) == Word(w, a[1], a[2], Limb(a, 3), Limb(a, 4))
Trunc(a, w) == Word(w, a[1], a[2], Limb(a, 3), Limb(a, 4))
Zero(w) == Word(w, 0, 0, 0, 0)

IsZero(a) == \A i \in 1..Len(a) : a[i] = 0

\* a < b and a <= b for words of the same width.
WLt(a, b) ==
  \E i \in 1..Len(a) : a[i] < b[i] /\ \A j \in (i+1)..Len(a) : a[j] = b[j]
WLe(a, b) == ~WLt(b, a)

\* a + b modulo 2^(16 * Len(a)), the carry running up the limbs.
WAdd(a, b) ==
  LET s1 == a[1] + b[1]
      s2 == a[2] + b[2] + (s1 \div Base)
      s3 == Limb(a, 3) + Limb(b, 3) + (s2 \div Base)
      s4 == Limb(a, 4) + Limb(b, 4) + (s3 \div Base)
  IN Word(Len(a), s1 % Base, s2 % Base, s3 % Base, s4 % Base)

\* a - b modulo 2^(16 * Len(a)), the borrow running up the limbs.
WSub(a, b) ==
  LET d1 == a[1] - b[1]
      d2 == a[2] - b[2] - (IF d1 < 0 THEN 1 ELSE 0)
      d3 == Limb(a, 3) - Limb(b, 3) - (IF d2 < 0 THEN 1 ELSE 0)
      d4 == Limb(a, 4) - Limb(b, 4) - (IF d3 < 0 THEN 1 ELSE 0)
  IN Word(Len(a), (d1 + Base) % Base, (d2 + Base) % Base,
                  (d3 + Base) % Base, (d4 + Base) % Base)

\* x * y for two limbs, as <<lo, hi>>; every intermediate stays below 2^31.
LimbMul(x, y) ==
  LET t1 == (x % 256) * y
      t2 == (x \div 256) * y
      s  == t1 + (t2 % 256) * 256
  IN <<s % Base, (t2 \div 256) + (s \div Base)>>

\* a * b in full for two uint32_t: the uint64_t product, column by column.
WMul(a, b) ==
  LET p11 == LimbMul(a[1], b[1])
      p12 == LimbMul(a[1], b[2])
      p21 == LimbMul(a[2], b[1])
      p22 == LimbMul(a[2], b[2])
      c2  == p11[2] + p12[1] + p21[1]
      c3  == p12[2] + p21[2] + p22[1] + (c2 \div Base)
      c4  == p22[2] + (c3 \div Base)
  IN <<p11[1], c2 % Base, c3 % Base, c4 % Base>>

\* Bit k (0 = least significant) of a.
WBit(a, k) == (a[(k \div 16) + 1] \div (2^(k % 16))) % 2

\* (a << 1) | bit, modulo 2^(16 * Len(a)).
WShl1(a, bit) ==
  Word(Len(a), ((a[1] * 2) % Base) + bit,
               ((a[2] * 2) % Base) + (a[1] \div (Base \div 2)),
               ((Limb(a, 3) * 2) % Base) + (a[2] \div (Base \div 2)),
               ((Limb(a, 4) * 2) % Base) + (Limb(a, 3) \div (Base \div 2)))

\* Binary long division of a by bb, bits k-1 down to stop of a: each step
\* brings one bit of a down into the remainder st[1] and gives the quotient
\* st[2] one more bit.
Bring(a, k, st) == WShl1(st[1], WBit(a, k))
RECURSIVE DivBits(_, _, _, _, _)
DivBits(a, bb, k, stop, st) ==
  IF k = stop THEN st
  ELSE IF WLe(bb, Bring(a, k - 1, st))
       THEN DivBits(a, bb, k - 1, stop,
                    <<WSub(Bring(a, k - 1, st), bb), WShl1(st[2], 1)>>)
       ELSE DivBits(a, bb, k - 1, stop,
                    <<Bring(a, k - 1, st), WShl1(st[2], 0)>>)

\* floor(a / b) for a uint64_t a and b # 0: the 64 bits of a, most
\* significant first, eight at a time.  The running remainder has one limb
\* more than b.  The steps are listed in a tuple, which is evaluated from
\* left to right.
WDiv(a, b) ==
  LET bb == Ext(b, Len(b) + 1)
      s0 == <<Zero(Len(b) + 1), Zero(4)>>
      s1 == DivBits(a, bb, 64, 56, s0)
      s2 == DivBits(a, bb, 56, 48, s1)
      s3 == DivBits(a, bb, 48, 40, s2)
      s4 == DivBits(a, bb, 40, 32, s3)
      s5 == DivBits(a, bb, 32, 24, s4)
      s6 == DivBits(a, bb, 24, 16, s5)
      s7 == DivBits(a, bb, 16, 8, s6)
      s8 == DivBits(a, bb, 8, 0, s7)
  IN <<a, bb, s1, s2, s3, s4, s5, s6, s7, s8>>[10][2]

\* floor(a / 2^k): the division by a power of two, as a right shift.
WShr(a, k) ==
  LET ls == k \div 16
      bs == k % 16
      F(i) == (Limb(a, i + ls) \div (2^bs)) +
              ((Limb(a, i + ls + 1) % (2^bs)) * (2^(16 - bs)))
  IN Word(Len(a), F(1), F(2), F(3), F(4))

\* x & y and x | y for two limbs, bit by bit over k bits.
RECURSIVE LimbAnd(_, _, _)
LimbAnd(x, y, k) ==
  IF k = 0 THEN 0
  ELSE (x % 2) * (y % 2) + 2 * LimbAnd(x \div 2, y \div 2, k - 1)
RECURSIVE LimbOr(_, _, _)
LimbOr(x, y, k) ==
  IF k = 0 THEN 0
  ELSE (IF (x % 2) + (y % 2) > 0 THEN 1 ELSE 0) + 2 * LimbOr(x \div 2, y \div 2, k - 1)

\* a & b, a | b, ~a and -a for uint32_t.
WAnd(a, b) == <<LimbAnd(a[1], b[1], 16), LimbAnd(a[2], b[2], 16)>>
WOr(a, b) == <<LimbOr(a[1], b[1], 16), LimbOr(a[2], b[2], 16)>>
WNot(a) == <<Base - 1 - a[1], Base - 1 - a[2]>>
WNeg(a) == WSub(<<0, 0>>, a)

\* The int a comparison yields, as a uint32_t.
WBool(b) == IF b THEN <<1, 0>> ELSE <<0, 0>>

\* The value of a word known to be below 2^31, as an integer.
ToInt(a) == a[1] + Base * (IF Len(a) >= 2 THEN a[2] ELSE 0)
IsSmall(a) == a[2] < Base \div 2 /\ \A i \in 3..Len(a) : a[i] = 0

\* ------------------------------------------------------------------------
\* Constants of arithmetic_coding.h
\* ------------------------------------------------------------------------

PRECISION == 31
FIXED_SCALE == 65536
MAX_CONTEXT_BYTES == 256000
INITIAL_OUTPUT_CAPACITY == 4096

\* 1U << k as a uint32_t, k < 32.
Pow2W(k) == <<IF k < 16 THEN 2^k ELSE 0, IF k >= 16 THEN 2^(k - 16) ELSE 0>>

TOTAL_FREQUENCY == Pow2W(PRECISION)
HALF == Pow2W(PRECISION - 1)
QUARTER == Pow2W(PRECISION - 2)
THREE_QUARTER == WAdd(HALF, QUARTER)
W1 == <<1, 0>>
WFixedScale == <<FIXED_SCALE % Base, FIXED_SCALE \div Base>>

\* The largest context length the ring can hold, in bits.
K_max == 8 * MAX_CONTEXT_BYTES

\* ------------------------------------------------------------------------
\* Bounds of the model
\* ------------------------------------------------------------------------

MaxN == 3       \* input bit lengths 0..MaxN
MaxK == 2       \* small context lengths 0..MaxK

\* ------------------------------------------------------------------------
\* Predictors (ProbabilityFunction)
\* ------------------------------------------------------------------------

\* The branchless clamps of example_get_probability_fixed:
\* prob_fixed += clamp_low_mask & (1 - prob_fixed), then
\* prob_fixed += clamp_high_mask & ((FIXED_SCALE - 1) - prob_fixed).
ClampLow(prob_fixed) ==
  IF WLt(prob_fixed, W1) THEN WAdd(prob_fixed, WSub(W1, prob_fixed))
  ELSE prob_fixed
ClampHigh(prob_fixed) ==
  IF WLe(WFixedScale, prob_fixed)
  THEN WAdd(prob_fixed, WSub(WSub(WFixedScale, W1), prob_fixed))
  ELSE prob_fixed

\* The quotient without the half of the denominator added: the variant
\* that tells whether a property depends on the predictor rounding to
\* nearest.
Rounded_down(numerator, denominator) ==
  Trunc(WDiv(WMul(numerator, WFixedScale), denominator), 2)

\* (numerator * FIXED_SCALE + denominator / 2) / denominator, in uint64_t,
\* stored in the uint32_t prob_fixed.
Rounded(numerator, denominator) ==
  Trunc(WDiv(WAdd(WMul(numerator, WFixedScale), Ext(WShr(denominator, 1), 4)),
             denominator), 2)

\* A predictor that ignores its context and always answers one half: the
\* variant that tells whether a property depends on the predictor learning
\* from the ring.
example_get_probability_fixed_uniform(count_ones, context_length) ==
  U32(FIXED_SCALE \div 2)

\* example_get_probability_fixed of probability.c: count_ones and
\* context_length are the uint32_t locals it reads from the ContextContent.
example_get_probability_fixed(count_ones, context_length) ==
  ClampHigh(ClampLow(
    IF IsZero(context_length) THEN U32(FIXED_SCALE \div 2)
    ELSE Rounded(WAdd(count_ones, W1), WAdd(context_length, <<2, 0>>))))

\* A caller-supplied predictor: the reference one, or a constant one.  The
\* constant predictors "zero", "scale" and "over" return 0, FIXED_SCALE and
\* FIXED_SCALE + 1, outside [1, FIXED_SCALE - 1].
Conforming == {"example", "low", "high"}
NonConforming == {"zero", "scale", "over"}
get_probability(pf, count_ones, context_length) ==
  CASE pf = "example" -> example_get_probability_fixed(count_ones, context_length)
    [] pf = "low"     -> W1
    [] pf = "high"    -> WSub(WFixedScale, W1)
    [] pf = "zero"    -> <<0, 0>>
    [] pf = "scale"   -> WFixedScale
    [] pf = "over"    -> WAdd(WFixedScale, W1)

\* ------------------------------------------------------------------------
\* Bit I/O helpers
\* ------------------------------------------------------------------------

\* read_bit taking the bits of a byte least significant first: the variant
\* that tells whether a property depends on the bit order of the stream.
read_bit_lsb_first(encoded, bit_index, encoded_length) ==
  LET byte_pos == bit_index \div 8
  IN IF byte_pos >= encoded_length THEN <<0, bit_index>>
     ELSE <<(encoded[byte_pos + 1] \div (2^(bit_index % 8))) % 2, bit_index + 1>>

\* read_bit moving the cursor on every call: the variant that tells whether
\* a property depends on the cursor resting at the end of the buffer.
read_bit_always_advances(encoded, bit_index, encoded_length) ==
  LET byte_pos == bit_index \div 8
  IN IF byte_pos >= encoded_length THEN <<0, bit_index + 1>>
     ELSE <<(encoded[byte_pos + 1] \div (2^(7 - (bit_index % 8)))) % 2,
            bit_index + 1>>

\* read_bit: <<bit, *bit_index afterwards>>; past the end the bit is 0 and
\* the index stays.
read_bit(encoded, bit_index, encoded_length) ==
  LET byte_pos == bit_index \div 8
  IN IF byte_pos >= encoded_length THEN <<0, bit_index>>
     ELSE LET current_byte == encoded[byte_pos + 1]
              shift == 7 - (bit_index % 8)
          IN <<(current_byte \div (2^shift)) % 2, bit_index + 1>>

\* ensure_output_capacity: the capacity afterwards (realloc succeeding).
RECURSIVE NextPow2(_, _)
NextPow2(p, required) == IF p >= required THEN p ELSE NextPow2(2 * p, required)
\* ensure_output_capacity asking for just the bytes required: the variant
\* that tells whether a property depends on the rounding up to a power of
\* two.
ensure_output_capacity_exact(coder, additional) ==
  LET required == coder.output_size + additional
  IN IF required > coder.output_capacity
     THEN [coder EXCEPT !.output_capacity = required]
     ELSE coder

ensure_output_capacity(coder, additional) ==
  LET required == coder.output_size + additional
      start    == IF coder.output_capacity = 0 THEN INITIAL_OUTPUT_CAPACITY
                  ELSE coder.output_capacity
  IN IF required > coder.output_capacity
     THEN [coder EXCEPT !.output_capacity =
             IF start < required THEN NextPow2(1, required) ELSE start]
     ELSE coder

\* The byte store shared by output_bit, output_following_bits and
\* flush_output: coder->output[coder->output_size++] = bit_buffer.
PushByte(coder) ==
  LET c == ensure_output_capacity(coder, 1)
  IN [c EXCEPT !.output = Append(c.output, c.bit_buffer),
               !.output_size = c.output_size + 1,
               !.bit_buffer = 0,
               !.bit_count = 0]

\* The accumulator filled from its low end upwards (bit << bit_count): the
\* variant that tells whether a property depends on the order of the bits
\* within a byte.
ShiftIn_low_first(coder, bit) ==
  [coder EXCEPT !.bit_buffer =
                   (coder.bit_buffer + (bit % 2) * 2^coder.bit_count) % 256,
                !.bit_count = coder.bit_count + 1]

\* (bit_buffer << 1) | (bit & 1), kept in a uint8_t, with bit_count++.
ShiftIn(coder, bit) ==
  [coder EXCEPT !.bit_buffer = (2 * coder.bit_buffer + (bit % 2)) % 256,
                !.bit_count = coder.bit_count + 1]

output_bit(coder, bit) ==
  LET c == ShiftIn(coder, bit)
  IN IF c.bit_count = 8 THEN PushByte(c) ELSE c

\* flush_output storing bit_buffer without the left shift: the variant that
\* tells whether a property depends on where the padding goes.
flush_output_dropped(coder) == coder

flush_output_unshifted(coder) ==
  IF coder.bit_count > 0 THEN PushByte(coder) ELSE coder

flush_output(coder) ==
  IF coder.bit_count > 0
  THEN PushByte([coder EXCEPT !.bit_buffer =
                   (coder.bit_buffer * 2^(8 - coder.bit_count)) % 256])
  ELSE coder

\* The inner for loop cut to a single pass: the variant that tells whether
\* a property depends on every bit of a batch being shifted in.
ShiftInN_single(coder, bit, n) ==
  IF n = 0 THEN coder ELSE ShiftIn(coder, bit)

\* The inner for loop of output_following_bits: n bits shifted in.
RECURSIVE ShiftInN(_, _, _)
ShiftInN(coder, bit, n) ==
  IF n = 0 THEN coder ELSE ShiftInN(ShiftIn(coder, bit), bit, n - 1)

\* The while loop of output_following_bits, count bits left to write.
RECURSIVE FollowLoop(_, _, _)
FollowLoop(coder, bit, count) ==
  IF count = 0 THEN coder
  ELSE LET room == 8 - coder.bit_count
           bits_to_write == IF count < room THEN count ELSE room
           c == ShiftInN(coder, bit, bits_to_write)
       IN FollowLoop(IF c.bit_count = 8 THEN PushByte(c) ELSE c,
                     bit, count - bits_to_write)

\* output_following_bits without the closing bits_to_follow = 0: the
\* variant that tells whether a property depends on the pending count being
\* cleared.
output_following_bits_kept(coder, bit) ==
  IF coder.bits_to_follow = 0 THEN coder
  ELSE FollowLoop(coder, bit, coder.bits_to_follow)

output_following_bits(coder, bit) ==
  IF coder.bits_to_follow = 0 THEN coder
  ELSE [FollowLoop(coder, bit, coder.bits_to_follow) EXCEPT !.bits_to_follow = 0]

\* ------------------------------------------------------------------------
\* Context ring buffer
\* ------------------------------------------------------------------------

\* context_buffer is the set of <<byte_pos, bit_pos>> holding a 1 (all other
\* bits of the zeroed array are 0).
RingBit(coder, byte_pos, bit_pos) ==
  IF <<byte_pos, bit_pos>> \in coder.context_buffer THEN 1 ELSE 0

\* Whether the next ring access stays inside context_buffer.
RingInBounds(coder) ==
  coder.context_capacity = 0 \/ coder.context_index \div 8 < MAX_CONTEXT_BYTES

\* update_context_ring_buffer wrapping one update late (index > capacity):
\* the variant that tells whether a property depends on the wrap test.
update_context_ring_buffer_late_wrap(coder, new_bit) ==
  IF coder.context_capacity > 0
  THEN LET byte_pos == coder.context_index \div 8
           bit_pos  == 7 - (coder.context_index % 8)
           old_bit  == RingBit(coder, byte_pos, bit_pos)
           index    == coder.context_index + 1
       IN [coder EXCEPT
             !.context_buffer =
                IF new_bit % 2 = 1
                THEN coder.context_buffer \cup {<<byte_pos, bit_pos>>}
                ELSE coder.context_buffer \ {<<byte_pos, bit_pos>>},
             !.count_ones =
                WAdd(coder.count_ones,
                     Ext(WSub(U32(new_bit), U32(old_bit)), Len(coder.count_ones))),
             !.context_index =
                IF index > coder.context_capacity
                THEN index - coder.context_capacity ELSE index]
  ELSE coder

\* update_context_ring_buffer without its context_capacity > 0 test: the
\* variant that tells whether a property depends on that test.
update_context_ring_buffer_unguarded(coder, new_bit) ==
  LET byte_pos == coder.context_index \div 8
      bit_pos  == 7 - (coder.context_index % 8)
      old_bit  == RingBit(coder, byte_pos, bit_pos)
      index    == coder.context_index + 1
  IN [coder EXCEPT
        !.context_buffer =
           IF new_bit % 2 = 1
           THEN coder.context_buffer \cup {<<byte_pos, bit_pos>>}
           ELSE coder.context_buffer \ {<<byte_pos, bit_pos>>},
        !.count_ones =
           WAdd(coder.count_ones,
                Ext(WSub(U32(new_bit), U32(old_bit)), Len(coder.count_ones))),
        !.context_index =
           IF index >= coder.context_capacity
           THEN index - coder.context_capacity ELSE index]

\* update_context_ring_buffer.  count_ones is a size_t of Len(count_ones)
\* limbs; (uint32_t)new_bit - (uint32_t)old_bit is computed in uint32_t and
\* then widened.
\* update_context_ring_buffer adding the new bit without taking off the
\* old one: the variant that tells whether a property depends on the bit
\* that leaves the ring being uncounted.
update_context_ring_buffer_no_evict(coder, new_bit) ==
  IF coder.context_capacity > 0
  THEN LET byte_pos == coder.context_index \div 8
           bit_pos  == 7 - (coder.context_index % 8)
           index    == coder.context_index + 1
       IN [coder EXCEPT
             !.context_buffer =
                IF new_bit % 2 = 1
                THEN coder.context_buffer \cup {<<byte_pos, bit_pos>>}
                ELSE coder.context_buffer \ {<<byte_pos, bit_pos>>},
             !.count_ones =
                WAdd(coder.count_ones, Ext(U32(new_bit), Len(coder.count_ones))),
             !.context_index =
                IF index >= coder.context_capacity
                THEN index - coder.context_capacity ELSE index]
  ELSE coder

update_context_ring_buffer(coder, new_bit) ==
  IF coder.context_capacity > 0
  THEN LET byte_pos == coder.context_index \div 8
           bit_pos  == 7 - (coder.context_index % 8)
           old_bit  == RingBit(coder, byte_pos, bit_pos)
           delta    == WSub(U32(new_bit), U32(old_bit))
           index    == coder.context_index + 1
       IN [coder EXCEPT
             !.context_buffer =
                IF new_bit % 2 = 1
                THEN coder.context_buffer \cup {<<byte_pos, bit_pos>>}
                ELSE coder.context_buffer \ {<<byte_pos, bit_pos>>},
             !.count_ones =
                WAdd(coder.count_ones, Ext(delta, Len(coder.count_ones))),
             !.context_index =
                IF index >= coder.context_capacity
                THEN index - coder.context_capacity ELSE index]
  ELSE coder

\* ------------------------------------------------------------------------
\* Interval arithmetic shared by arithmetic_encode and arithmetic_decode
\* ------------------------------------------------------------------------

\* scaled_p0 from the predictor's p1_fixed.
ScaledP0(p1_fixed) ==
  LET p0_fixed == WSub(WFixedScale, p1_fixed)
      scaled   == Trunc(WShr(WMul(p0_fixed, TOTAL_FREQUENCY), 16), 2)
  IN IF WLe(TOTAL_FREQUENCY, scaled) THEN WSub(TOTAL_FREQUENCY, W1) ELSE scaled

\* range = high - low + 1, a uint32_t.
Range(coder) == WAdd(WSub(coder.high, coder.low), W1)

\* ((uint64_t)range * scaled_p0) / TOTAL_FREQUENCY, a uint64_t.
Share(coder, sp0) == WShr(WMul(Range(coder), sp0), PRECISION)

\* The narrowing for one bit: both sides are computed in uint64_t and stored
\* in the uint32_t field.
Narrow(coder, bit, sp0) ==
  LET q == Share(coder, sp0)
      l == Ext(coder.low, 4)
  IN IF bit = 0
     THEN [coder EXCEPT !.high = Trunc(WSub(WAdd(l, q), Ext(W1, 4)), 2)]
     ELSE [coder EXCEPT !.low = Trunc(WAdd(l, q), 2)]

\* The rule of the renormalization loop that applies: "low" (high < HALF),
\* "high" (low >= HALF), "mid" (the middle half) or "none" (break).
\* The loop without its third rule: the variant that tells whether a
\* property depends on the middle half being rescaled.
Rule_two_halves(coder) ==
  IF WLt(coder.high, HALF) THEN "low"
  ELSE IF WLe(HALF, coder.low) THEN "high"
  ELSE "none"

Rule(coder) ==
  IF WLt(coder.high, HALF) THEN "low"
  ELSE IF WLe(HALF, coder.low) THEN "high"
  ELSE IF WLe(QUARTER, coder.low) /\ WLt(coder.high, THREE_QUARTER) THEN "mid"
  ELSE "none"

\* What a rule subtracts from low and high (and from value when decoding).
Offset(rule) ==
  CASE rule = "low" -> <<0, 0>> [] rule = "high" -> HALF [] rule = "mid" -> QUARTER

\* The shift without the rule's subtraction: the variant that tells whether
\* a property depends on HALF or QUARTER being taken off first.
Rescale_no_offset(coder, rule) ==
  [coder EXCEPT !.low  = WShl1(coder.low, 0),
                !.high = WShl1(coder.high, 1)]

\* The rule's subtraction without the shift: the variant that tells
\* whether a property depends on a pass of the loop widening the interval.
Rescale_unshifted(coder, rule) ==
  [coder EXCEPT !.low  = WSub(coder.low, Offset(rule)),
                !.high = WSub(coder.high, Offset(rule))]

\* The shift with a 0 coming into high as into low: the variant that tells
\* whether a property depends on high being refilled with a 1.
Rescale_even_high(coder, rule) ==
  [coder EXCEPT !.low  = WShl1(WSub(coder.low, Offset(rule)), 0),
                !.high = WShl1(WSub(coder.high, Offset(rule)), 0)]

\* low <<= 1 and high = (high << 1) | 1 after the rule's subtraction.
Rescale(coder, rule) ==
  [coder EXCEPT !.low  = WShl1(WSub(coder.low, Offset(rule)), 0),
                !.high = WShl1(WSub(coder.high, Offset(rule)), 1)]

\* ------------------------------------------------------------------------
\* State: one arithmetic_encode call, then one arithmetic_decode call
\* ------------------------------------------------------------------------

VARIABLES
  pc,              \* where the session is: "start", "enc", "enc_renorm",
                   \* "encoded", "dec_prime", "dec", "dec_narrow", "dec_renorm",
                   \* "done", "ub"
  build,           \* limbs of a size_t in this build: 2 (32 bit) or 4 (64 bit)
  sequence,        \* encode's input buffer, a sequence of bytes
  length,          \* the bit length N given to encode and to decode
  context_length,  \* the context length K given to both
  pf,              \* the predictor given to both
  enc,             \* arithmetic_encode's ArithmeticCoder
  enc_i,           \* its loop index i
  encoded,         \* decode's input bytes
  encoded_length,  \* and their number
  decoded,         \* decode's output buffer
  dec,             \* arithmetic_decode's ArithmeticCoder
  dec_i,           \* its loop index i
  bit_index,       \* its read cursor
  prime_i,         \* the index of its priming loop
  p1_fixed,        \* the local p1_fixed of the loop body: the latest answer
                   \* of the predictor
  scaled_p0,       \* the local scaled_p0 computed from it
  scaled_value,    \* the local scaled_value of decode's loop body
  enc_queries,     \* history: encode's predictor queries <<count_ones, context_length>>
  dec_queries,     \* history: decode's predictor queries
  enc_hist,        \* history: encode's coder after each finished bit
  decoded0,        \* history: the decoded buffer as the caller passed it
  py,              \* the call of the Python binding around the core call, if any
  inst,            \* the calls running side by side, each with its own locals
  calls,           \* the number of calls of the session that have returned
  tally            \* what the call in hand has done so far: the passes of
                   \* encode's and of decode's renormalization loop that
                   \* rescaled, and decode's calls of read_bit

vars == <<pc, build, sequence, length, context_length, pf, enc, enc_i,
          encoded, encoded_length, decoded, dec, dec_i, bit_index, prime_i,
          p1_fixed, scaled_p0, scaled_value, enc_queries, dec_queries, enc_hist, decoded0,
          py, inst, calls, tally>>

loopVars == <<p1_fixed, scaled_p0, scaled_value>>
argVars == <<build, sequence, pf, inst, calls, tally>>
sameCall == <<build, sequence, pf, inst, calls, length, context_length, py>>
callVars == <<argVars, length, context_length, py>>
encVars == <<enc, enc_i, enc_queries, enc_hist>>
decVars == <<encoded, encoded_length, decoded, dec, dec_i, bit_index, prime_i,
             dec_queries, decoded0>>

\* Nothing done yet.
NoTally == [encode_rescales |-> 0, decode_rescales |-> 0, read_bit_calls |-> 0]

\* ArithmeticCoder coder = {0}, with a size_t of sz limbs.
ZeroCoder(sz) ==
  [low |-> <<0, 0>>, high |-> <<0, 0>>, value |-> <<0, 0>>,
   output |-> <<>>, output_size |-> 0, output_capacity |-> 0,
   bits_to_follow |-> 0, bit_buffer |-> 0, bit_count |-> 0,
   context_buffer |-> {}, context_capacity |-> 0, context_index |-> 0,
   count_ones |-> Zero(sz)]

\* The lowest bit of the byte that holds bit i: the variant that tells
\* whether a property depends on which bit of a byte is read.
BufBit_low_bit(buf, i) == buf[(i \div 8) + 1] % 2

\* Bit i of a packed buffer, most significant bit of each byte first.
BufBit(buf, i) == (buf[(i \div 8) + 1] \div (2^(7 - (i % 8)))) % 2

\* A write that only ever sets bits (|= mask for a 1, nothing for a 0): the
\* variant that tells whether a property depends on a 0 being stored.
BufWrite_set_only(buf, i, bit) ==
  LET k    == (i \div 8) + 1
      mask == 2^(7 - (i % 8))
      old  == (buf[k] \div mask) % 2
  IN [buf EXCEPT ![k] = buf[k] + (IF bit = 1 /\ old = 0 THEN mask ELSE 0)]

\* buf with bit i set (|= mask) or cleared (&= ~mask).
BufWrite(buf, i, bit) ==
  LET k    == (i \div 8) + 1
      mask == 2^(7 - (i % 8))
      old  == (buf[k] \div mask) % 2
  IN [buf EXCEPT ![k] = buf[k] - old * mask + bit * mask]

\* The input buffers of a call of bit length n: InBytes bytes whose first n
\* bits are arbitrary and whose padding bits are all pad, for a pad in Pads.
InBytes == (MaxN + 7) \div 8
Inputs(n, Pads) ==
  { [k \in 1..InBytes |->
       LET b(j) == IF 8 * (k - 1) + j < n THEN f[8 * (k - 1) + j] ELSE pad
       IN 128 * b(0) + 64 * b(1) + 32 * b(2) + 16 * b(3) +
          8 * b(4) + 4 * b(5) + 2 * b(6) + b(7)]
    : f \in [0..(n - 1) -> {0, 1}], pad \in Pads }

\* The context lengths tried: the small ones, and the bound of the ring and
\* one above it.
SmallContexts == 0..MaxK
LargeContexts == {K_max, K_max + 1}

\* No binding call: the core functions are called directly.
NoPy ==
  [fn |-> "none", sequence_bit_length |-> 0, context_length |-> 0,
   error |-> "none", buffers |-> 0, result |-> <<>>]

InitWith(PFs, Ks, Builds, Pads) ==
  /\ pc = "start"
  /\ py = NoPy /\ inst = <<>> /\ calls = 0 /\ tally = NoTally
  /\ build \in Builds
  /\ pf \in PFs
  /\ context_length \in Ks
  /\ length \in 0..MaxN
  /\ sequence \in Inputs(length, Pads)
  /\ enc = ZeroCoder(build) /\ enc_i = 0
  /\ encoded = <<>> /\ encoded_length = 0
  /\ decoded = <<>> /\ decoded0 = <<>>
  /\ dec = ZeroCoder(build) /\ dec_i = 0 /\ bit_index = 0 /\ prime_i = 0
  /\ p1_fixed = <<0, 0>> /\ scaled_p0 = <<0, 0>> /\ scaled_value = <<0, 0>>
  /\ enc_queries = <<>> /\ dec_queries = <<>> /\ enc_hist = <<>>

Init ==
  \/ InitWith(Conforming, SmallContexts, {2, 4}, {0, 1})
  \/ InitWith({"example"}, LargeContexts, {4}, {0})

\* ------------------------------------------------------------------------
\* arithmetic_encode
\* ------------------------------------------------------------------------

\* The set-up that leaves the ring of the encoder's coder where the last
\* call left it, as it would were the ring a static of the file: the
\* variant that tells whether a property depends on a call starting from
\* an all-zero ring.
InitCoder_stale(sz, capacity, K) ==
  [ZeroCoder(sz) EXCEPT !.high = WSub(TOTAL_FREQUENCY, W1),
                        !.output_capacity = capacity,
                        !.context_capacity = K,
                        !.context_buffer = enc.context_buffer,
                        !.context_index = enc.context_index,
                        !.count_ones = enc.count_ones]

\* The coder as both functions set it up before their loops.
InitCoder(sz, capacity, K) ==
  [ZeroCoder(sz) EXCEPT !.high = WSub(TOTAL_FREQUENCY, W1),
                        !.output_capacity = capacity,
                        !.context_capacity = K]

\* The predictor handed a count of zero whatever the ring holds: the
\* variant that tells whether a property depends on the predictor seeing
\* the ones of the context.
Query_no_count(coder) == <<<<0, 0>>, U32(coder.context_capacity)>>

\* The history variables follow the calls of up to MaxN bits; a longer call
\* is followed by its program state alone.
Logged(history, entry) ==
  IF length > MaxN THEN history ELSE Append(history, entry)

\* What the loop hands the predictor: context_content.count_ones is an int,
\* read back as a uint32_t, and context_length a uint32_t.
Query(coder) == <<Trunc(coder.count_ones, 2), U32(coder.context_capacity)>>

\* The snapshot of a coder that the two sides must share.
Snapshot(coder) ==
  [low |-> coder.low, high |-> coder.high,
   context_buffer |-> coder.context_buffer,
   context_index |-> coder.context_index, count_ones |-> coder.count_ones]

EncodeInit ==
  /\ pc = "start"
  /\ enc' = InitCoder(build, INITIAL_OUTPUT_CAPACITY, context_length)
  /\ enc_i' = 0
  /\ tally' = [tally EXCEPT !.encode_rescales = 0]
  /\ pc' = "enc"
  /\ UNCHANGED <<sameCall, decVars, loopVars, enc_queries, enc_hist>>

\* One pass of the loop body up to the renormalization loop.
EncodeBit ==
  /\ pc = "enc" /\ enc_i < length
  /\ p1_fixed' = get_probability(pf, Query(enc)[1], Query(enc)[2])
  /\ scaled_p0' = ScaledP0(p1_fixed')
  /\ enc_queries' = Logged(enc_queries, Query(enc))
  /\ enc' = Narrow(enc, BufBit(sequence, enc_i), scaled_p0')
  /\ pc' = "enc_renorm"
  /\ UNCHANGED <<callVars, decVars, enc_i, scaled_value, enc_hist>>

EncodeRescaleLow ==
  /\ pc = "enc_renorm" /\ Rule(enc) = "low"
  /\ enc' = Rescale(output_following_bits(output_bit(enc, 0), 1), "low")
  /\ tally' = [tally EXCEPT !.encode_rescales = @ + 1]
  /\ UNCHANGED <<pc, sameCall, decVars, enc_i, loopVars, enc_queries, enc_hist>>

EncodeRescaleHigh ==
  /\ pc = "enc_renorm" /\ Rule(enc) = "high"
  /\ enc' = Rescale(output_following_bits(output_bit(enc, 1), 0), "high")
  /\ tally' = [tally EXCEPT !.encode_rescales = @ + 1]
  /\ UNCHANGED <<pc, sameCall, decVars, enc_i, loopVars, enc_queries, enc_hist>>

\* The middle rule without bits_to_follow++: the variant that tells whether
\* a property depends on the middle rule deferring a bit.
EncodeRescaleMid_undeferred ==
  /\ pc = "enc_renorm" /\ Rule(enc) = "mid"
  /\ enc' = Rescale(enc, "mid")
  /\ tally' = [tally EXCEPT !.encode_rescales = @ + 1]
  /\ UNCHANGED <<pc, sameCall, decVars, enc_i, loopVars, enc_queries, enc_hist>>

EncodeRescaleMid ==
  /\ pc = "enc_renorm" /\ Rule(enc) = "mid"
  /\ enc' = Rescale([enc EXCEPT !.bits_to_follow = enc.bits_to_follow + 1], "mid")
  /\ tally' = [tally EXCEPT !.encode_rescales = @ + 1]
  /\ UNCHANGED <<pc, sameCall, decVars, enc_i, loopVars, enc_queries, enc_hist>>

\* The context update followed by a second query of the predictor, on the
\* ring that already holds the bit: the variant that tells whether a
\* property depends on the predictor being asked once, before the write.
EncodeUpdate_requery ==
  /\ pc = "enc_renorm" /\ Rule(enc) = "none"
  /\ IF RingInBounds(enc)
     THEN /\ enc' = update_context_ring_buffer(enc, BufBit(sequence, enc_i))
          /\ enc_i' = enc_i + 1
          /\ enc_hist' = Logged(enc_hist, Snapshot(enc'))
          /\ enc_queries' = Logged(enc_queries, Query(enc'))
          /\ pc' = "enc"
     ELSE /\ pc' = "ub"
          /\ UNCHANGED <<enc, enc_i, enc_hist, enc_queries>>
  /\ UNCHANGED <<callVars, decVars, loopVars>>

\* The break of the renormalization loop and the context update.  A ring
\* access outside context_buffer is undefined behaviour.
EncodeUpdate ==
  /\ pc = "enc_renorm" /\ Rule(enc) = "none"
  /\ IF RingInBounds(enc)
     THEN /\ enc' = update_context_ring_buffer(enc, BufBit(sequence, enc_i))
          /\ enc_i' = enc_i + 1
          /\ enc_hist' = Logged(enc_hist, Snapshot(enc'))
          /\ pc' = "enc"
     ELSE /\ pc' = "ub"
          /\ UNCHANGED <<enc, enc_i, enc_hist>>
  /\ UNCHANGED <<callVars, decVars, loopVars, enc_queries>>

\* The final bits without output_following_bits: the variant that tells
\* whether a property depends on the bits after the first final bit.
FinalBits_first_only(coder) ==
  IF WLt(coder.low, QUARTER) THEN output_bit(coder, 0) ELSE output_bit(coder, 1)

\* The final bits after bits_to_follow++: 0 then 1s, or 1 then 0s.
FinalBits(coder) ==
  IF WLt(coder.low, QUARTER)
  THEN output_following_bits(output_bit(coder, 0), 1)
  ELSE output_following_bits(output_bit(coder, 1), 0)

\* The final bits, the flush and the return.
EncodeFlush ==
  /\ pc = "enc" /\ enc_i = length
  /\ enc' = flush_output(FinalBits(
               [enc EXCEPT !.bits_to_follow = enc.bits_to_follow + 1]))
  /\ pc' = "encoded"
  /\ UNCHANGED <<callVars, decVars, enc_i, loopVars, enc_queries, enc_hist>>

\* ------------------------------------------------------------------------
\* arithmetic_decode
\* ------------------------------------------------------------------------

\* The decoded buffer of the caller: DecBytes bytes, all 0x00 or all 0xFF,
\* enough for MaxN bits and for the bits asked for.
DecBytes == ((IF length > MaxN THEN length ELSE MaxN) + 7) \div 8
Fills == {0, 255}

\* decode is entered with `bytes` as its input and a decoded buffer filled
\* with one of `fills`, and sets up its coder.
DecodeEnter(bytes, fills) ==
  /\ encoded' = bytes
  /\ encoded_length' = Len(bytes)
  /\ \E fill \in fills :
       /\ decoded' = [k \in 1..DecBytes |-> fill]
       /\ decoded0' = [k \in 1..DecBytes |-> fill]
  /\ dec' = InitCoder(build, 0, context_length)
  /\ dec_i' = 0 /\ bit_index' = 0 /\ prime_i' = 0
  /\ tally' = [tally EXCEPT !.decode_rescales = 0, !.read_bit_calls = 0]
  /\ pc' = "dec_prime"
  /\ UNCHANGED <<sameCall, encVars, loopVars, dec_queries>>

\* The caller decodes what encode returned.
DecodeCall ==
  /\ pc = "encoded"
  /\ DecodeEnter(enc.output, Fills)

\* One pass of the priming loop.
DecodePrime ==
  /\ pc = "dec_prime"
  /\ dec' = [dec EXCEPT !.value =
               WShl1(dec.value, read_bit(encoded, bit_index, encoded_length)[1])]
  /\ bit_index' = read_bit(encoded, bit_index, encoded_length)[2]
  /\ prime_i' = prime_i + 1
  /\ tally' = [tally EXCEPT !.read_bit_calls = @ + 1]
  /\ pc' = IF prime_i + 1 < PRECISION THEN "dec_prime" ELSE "dec"
  /\ UNCHANGED <<sameCall, encVars, encoded, encoded_length, decoded, dec_i,
                 loopVars, dec_queries, decoded0>>

\* scaled_value from value - low instead of value - low + 1: the variant
\* that tells whether a property depends on the decoder's rounding.
ScaledValue_no_plus_one(coder) ==
  Trunc(WDiv(WSub(WMul(WSub(coder.value, coder.low), TOTAL_FREQUENCY), Ext(W1, 4)),
             Range(coder)), 2)

\* The decision with the comparison turned around: the variant that tells
\* whether a property depends on which side of the cut value lies.
DecodedBit_swapped(sv, sp0) == IF WLt(sv, sp0) THEN 1 ELSE 0

\* scaled_value without temp -= 1: the variant that tells whether a
\* property depends on the decoder's numerator stopping one short.
ScaledValue_no_minus_one(coder) ==
  Trunc(WDiv(WMul(WAdd(WSub(coder.value, coder.low), W1), TOTAL_FREQUENCY),
             Range(coder)), 2)

\* scaled_value of the decoder, for range # 0.
ScaledValue(coder) ==
  LET temp == WSub(WMul(WAdd(WSub(coder.value, coder.low), W1), TOTAL_FREQUENCY),
                   Ext(W1, 4))
  IN Trunc(WDiv(temp, Range(coder)), 2)

\* The bit the decoder decides on.
DecodedBit(sv, sp0) == IF WLt(sv, sp0) THEN 0 ELSE 1

\* The first half of the loop body: the query, the decision, the write into
\* decoded and the context update.  A zero range makes temp / range a
\* division by zero; a ring access outside context_buffer is undefined
\* behaviour as well.
DecodeBit ==
  /\ pc = "dec" /\ dec_i < length
  /\ p1_fixed' = get_probability(pf, Query(dec)[1], Query(dec)[2])
  /\ scaled_p0' = ScaledP0(p1_fixed')
  /\ dec_queries' = Logged(dec_queries, Query(dec))
  /\ IF IsZero(Range(dec)) \/ ~RingInBounds(dec)
     THEN /\ pc' = "ub"
          /\ UNCHANGED <<dec, decoded, scaled_value>>
     ELSE /\ scaled_value' = ScaledValue(dec)
          /\ decoded' = BufWrite(decoded, dec_i, DecodedBit(scaled_value', scaled_p0'))
          /\ dec' = update_context_ring_buffer(
                      dec, DecodedBit(scaled_value', scaled_p0'))
          /\ pc' = "dec_narrow"
  /\ UNCHANGED <<callVars, encVars, encoded, encoded_length, dec_i, bit_index,
                 prime_i, decoded0>>

\* The second half: low or high moves to the cut, by the bit just decided
\* (the local bit, which is the bit just written into decoded).
DecodeNarrow ==
  /\ pc = "dec_narrow"
  /\ dec' = Narrow(dec, BufBit(decoded, dec_i), scaled_p0)
  /\ pc' = "dec_renorm"
  /\ UNCHANGED <<callVars, encVars, encoded, encoded_length, decoded, dec_i,
                 bit_index, prime_i, loopVars, dec_queries, decoded0>>

\* The rescaling step that shifts value without the rule's subtraction:
\* the variant that tells whether a property depends on value following
\* low and high.
DecodeShift_value_kept(rule) ==
  /\ dec' = [Rescale(dec, rule) EXCEPT
               !.value = WShl1(dec.value,
                               read_bit(encoded, bit_index, encoded_length)[1])]
  /\ bit_index' = read_bit(encoded, bit_index, encoded_length)[2]
  /\ tally' = [tally EXCEPT !.decode_rescales = @ + 1, !.read_bit_calls = @ + 1]
  /\ UNCHANGED <<pc, sameCall, encVars, encoded, encoded_length, decoded, dec_i,
                 prime_i, loopVars, dec_queries, decoded0>>

\* A rescaling step of the decoder: the rule's subtraction, the shift, and
\* the next encoded bit shifted into value.
DecodeShift(rule) ==
  /\ dec' = [Rescale(dec, rule) EXCEPT
               !.value = WShl1(WSub(dec.value, Offset(rule)),
                               read_bit(encoded, bit_index, encoded_length)[1])]
  /\ bit_index' = read_bit(encoded, bit_index, encoded_length)[2]
  /\ tally' = [tally EXCEPT !.decode_rescales = @ + 1, !.read_bit_calls = @ + 1]
  /\ UNCHANGED <<pc, sameCall, encVars, encoded, encoded_length, decoded, dec_i,
                 prime_i, loopVars, dec_queries, decoded0>>

DecodeRescaleLow ==
  /\ pc = "dec_renorm" /\ Rule(dec) = "low"
  /\ DecodeShift("low")

DecodeRescaleHigh ==
  /\ pc = "dec_renorm" /\ Rule(dec) = "high"
  /\ DecodeShift("high")

DecodeRescaleMid ==
  /\ pc = "dec_renorm" /\ Rule(dec) = "mid"
  /\ DecodeShift("mid")

\* The break without i++: the variant that tells whether a property depends
\* on the loop of arithmetic_decode counting its bits.
DecodeNext_same_bit ==
  /\ pc = "dec_renorm" /\ Rule(dec) = "none"
  /\ pc' = "dec"
  /\ UNCHANGED <<callVars, encVars, decVars, loopVars>>

\* The break of the renormalization loop: on to the next bit.
DecodeNext ==
  /\ pc = "dec_renorm" /\ Rule(dec) = "none"
  /\ dec_i' = dec_i + 1
  /\ pc' = "dec"
  /\ UNCHANGED <<callVars, encVars, encoded, encoded_length, decoded, dec,
                 bit_index, prime_i, loopVars, dec_queries, decoded0>>

DecodeReturn ==
  /\ pc = "dec" /\ dec_i = length
  /\ pc' = "done"
  /\ UNCHANGED <<callVars, encVars, decVars, loopVars>>

Next ==
  \/ EncodeInit \/ EncodeBit
  \/ EncodeRescaleLow \/ EncodeRescaleHigh \/ EncodeRescaleMid
  \/ EncodeUpdate \/ EncodeFlush
  \/ DecodeCall \/ DecodePrime \/ DecodeBit \/ DecodeNarrow
  \/ DecodeRescaleLow \/ DecodeRescaleHigh \/ DecodeRescaleMid
  \/ DecodeNext \/ DecodeReturn

Spec == Init /\ [][Next]_vars

\* ------------------------------------------------------------------------
\* Predictors that break the contract
\* ------------------------------------------------------------------------

\* The same calls with any predictor, the ones returning 0, FIXED_SCALE and
\* FIXED_SCALE + 1 included.
InitRaw ==
  InitWith(Conforming \cup NonConforming, SmallContexts, {4}, {0})

SpecRaw == InitRaw /\ [][Next]_vars

\* ------------------------------------------------------------------------
\* Encoded streams that are not what encode returned
\* ------------------------------------------------------------------------

\* byte with bit j (7 = most significant) flipped.
FlipBit(byte, j) ==
  IF (byte \div (2^j)) % 2 = 1 THEN byte - 2^j ELSE byte + 2^j

\* The caller decodes a proper prefix of what encode returned.
DecodeTruncated ==
  /\ pc = "encoded"
  /\ \E n \in 1..(Len(enc.output) - 1) :
       DecodeEnter(SubSeq(enc.output, 1, n), {0})

\* The caller decodes the empty byte string.
DecodeEmpty ==
  /\ pc = "encoded"
  /\ DecodeEnter(<<>>, {0})

\* The caller decodes what encode returned with one bit of one byte flipped.
DecodeCorrupted ==
  /\ pc = "encoded"
  /\ \E k \in 1..Len(enc.output), j \in 0..7 :
       DecodeEnter([enc.output EXCEPT ![k] = FlipBit(enc.output[k], j)], {0})

InitChannel == InitWith(Conforming, {0, MaxK}, {4}, {0})

NextChannel ==
  \/ Next
  \/ DecodeTruncated \/ DecodeEmpty \/ DecodeCorrupted

SpecChannel == InitChannel /\ [][NextChannel]_vars

\* ------------------------------------------------------------------------
\* The context ring late in a long call
\* ------------------------------------------------------------------------

MaxRing == 2    \* context updates followed past the end of the ring

\* The ring fields of arithmetic_encode's coder after `done` zero bits, with
\* `done` below the capacity: nothing has wrapped, the ring holds no 1.  The
\* other fields are not read by update_context_ring_buffer and are left as
\* set up.
LateCoder(sz, K, done) ==
  [InitCoder(sz, INITIAL_OUTPUT_CAPACITY, K) EXCEPT !.context_index = done]

\* Such a call of arithmetic_encode one or two updates before the end of a
\* ring of K_max or K_max + 1 bits.  The bits still to come are chosen by
\* RingStep, so the input buffer is left out of this state.
InitLate ==
  /\ pc = "ring"
  /\ py = NoPy /\ inst = <<>> /\ calls = 0 /\ tally = NoTally
  /\ build \in {2, 4}
  /\ pf = "example"
  /\ context_length \in LargeContexts
  /\ length = 0 /\ sequence \in Inputs(0, {0})
  /\ \E done \in {context_length - 2, context_length - 1} :
       enc = LateCoder(build, context_length, done) /\ enc_i = done
  /\ encoded = <<>> /\ encoded_length = 0
  /\ decoded = <<>> /\ decoded0 = <<>>
  /\ dec = ZeroCoder(build) /\ dec_i = 0 /\ bit_index = 0 /\ prime_i = 0
  /\ p1_fixed = <<0, 0>> /\ scaled_p0 = <<0, 0>> /\ scaled_value = <<0, 0>>
  /\ enc_queries = <<>> /\ dec_queries = <<>> /\ enc_hist = <<>>

\* The context update at the end of one more pass of the encode loop.
RingStep ==
  /\ pc = "ring" /\ enc_i < context_length + MaxRing
  /\ IF RingInBounds(enc)
     THEN /\ \E bit \in {0, 1} : enc' = update_context_ring_buffer(enc, bit)
          /\ enc_i' = enc_i + 1
          /\ pc' = "ring"
     ELSE /\ pc' = "ub"
          /\ UNCHANGED <<enc, enc_i>>
  /\ UNCHANGED <<callVars, decVars, loopVars, enc_queries, enc_hist>>

InitRing == Init \/ InitLate

NextRing ==
  \/ Next
  \/ RingStep

SpecRing == InitRing /\ [][NextRing]_vars

\* ------------------------------------------------------------------------
\* The Python binding: py_arithmetic_encode and py_arithmetic_decode
\* ------------------------------------------------------------------------

\* The test on the parsed context_length with every context length passing:
\* the variant that tells whether a property depends on the test.
RejectsContext_never(k) == FALSE

\* if (context_length <= 0): the ValueError.
RejectsContext(k) == k <= 0

\* The context lengths and the encoded byte strings handed to the binding.
PyContexts == (0 - 1)..MaxK
PyStreams == {<<>>, <<64>>, <<0>>, <<255>>, <<106>>, <<149, 85>>}

\* decoded_byte_length = (decoded_bit_length + 7) / 8.
PyBytes(bit_length) == (bit_length + 7) \div 8

\* A call of encode(sequence, sequence_bit_length, context_length) or of
\* decode(encoded, decoded_bit_length, context_length) with parsed
\* arguments; the bit lengths are not negative.  The core has not been
\* called: its arguments and its state are blank.
InitBinding ==
  /\ pc \in {"py_encode", "py_decode"}
  /\ build = 4 /\ pf = "example" /\ inst = <<>> /\ calls = 0 /\ tally = NoTally
  /\ \E n \in 0..MaxN, k \in PyContexts :
       /\ py = [fn |-> IF pc = "py_encode" THEN "encode" ELSE "decode",
                sequence_bit_length |-> n, context_length |-> k,
                error |-> "none", buffers |-> 0, result |-> <<>>]
       /\ sequence \in Inputs(IF pc = "py_encode" THEN n ELSE 0, {0, 1})
  /\ encoded \in (IF pc = "py_decode" THEN PyStreams ELSE {<<>>})
  /\ encoded_length = 0
  /\ length = 0 /\ context_length = 0
  /\ enc = ZeroCoder(build) /\ enc_i = 0
  /\ decoded = <<>> /\ decoded0 = <<>>
  /\ dec = ZeroCoder(build) /\ dec_i = 0 /\ bit_index = 0 /\ prime_i = 0
  /\ p1_fixed = <<0, 0>> /\ scaled_p0 = <<0, 0>> /\ scaled_value = <<0, 0>>
  /\ enc_queries = <<>> /\ dec_queries = <<>> /\ enc_hist = <<>>

\* return NULL with ValueError set, from either function.
PyReject ==
  /\ pc \in {"py_encode", "py_decode"}
  /\ RejectsContext(py.context_length)
  /\ py' = [py EXCEPT !.error = "ValueError"]
  /\ pc' = "py_error"
  /\ UNCHANGED <<argVars, length, context_length, encVars, decVars, loopVars>>

\* py_arithmetic_encode calls arithmetic_encode with (size_t)sequence_bit_length
\* and (size_t)context_length.
PyEncodeForward ==
  /\ pc = "py_encode"
  /\ ~RejectsContext(py.context_length)
  /\ length' = py.sequence_bit_length
  /\ context_length' = py.context_length
  /\ pc' = "start"
  /\ UNCHANGED <<argVars, py, encVars, decVars, loopVars>>

\* arithmetic_encode has returned: RuntimeError for an empty result, else
\* the bytes object.
PyEncodeReturn ==
  /\ pc = "encoded" /\ py.fn = "encode"
  /\ py' = IF enc.output_size = 0
           THEN [py EXCEPT !.error = "RuntimeError"]
           ELSE [py EXCEPT !.result = enc.output]
  /\ pc' = "py_done"
  /\ UNCHANGED <<argVars, length, context_length, encVars, decVars, loopVars>>

\* py_arithmetic_decode allocates the zeroed decoded_output and calls
\* arithmetic_decode, which sets up its coder.
PyDecodeForward ==
  /\ pc = "py_decode"
  /\ ~RejectsContext(py.context_length)
  /\ py' = [py EXCEPT !.buffers = 1]
  /\ decoded' = [k \in 1..PyBytes(py.sequence_bit_length) |-> 0]
  /\ decoded0' = decoded'
  /\ encoded_length' = Len(encoded)
  /\ length' = py.sequence_bit_length
  /\ context_length' = py.context_length
  /\ dec' = InitCoder(build, 0, context_length')
  /\ dec_i' = 0 /\ bit_index' = 0 /\ prime_i' = 0
  /\ pc' = "dec_prime"
  /\ UNCHANGED <<argVars, encVars, encoded, loopVars, dec_queries>>

\* arithmetic_decode has returned: the bytes object of decoded_byte_length
\* bytes, and the buffer freed.
PyDecodeReturn ==
  /\ pc = "done" /\ py.fn = "decode"
  /\ py' = [py EXCEPT !.result = decoded, !.buffers = 0]
  /\ pc' = "py_done"
  /\ UNCHANGED <<argVars, length, context_length, encVars, decVars, loopVars>>

NextBinding ==
  \/ PyReject \/ PyEncodeForward \/ PyEncodeReturn
  \/ PyDecodeForward \/ PyDecodeReturn
  \/ EncodeInit \/ EncodeBit
  \/ EncodeRescaleLow \/ EncodeRescaleHigh \/ EncodeRescaleMid
  \/ EncodeUpdate \/ EncodeFlush
  \/ DecodePrime \/ DecodeBit \/ DecodeNarrow
  \/ DecodeRescaleLow \/ DecodeRescaleHigh \/ DecodeRescaleMid
  \/ DecodeNext \/ DecodeReturn

SpecBinding == InitBinding /\ [][NextBinding]_vars

\* ------------------------------------------------------------------------
\* A call as a value: the functions of their arguments
\* ------------------------------------------------------------------------

\* A call of arithmetic_encode about to start: its arguments, and its
\* locals coder and i, on a build whose size_t has sz limbs.
EncodeCallOf(sz, seq, n, K, f) ==
  [pc |-> "start", size |-> sz, sequence |-> seq, length |-> n,
   context_length |-> K, pf |-> f, coder |-> ZeroCoder(sz), i |-> 0]

\* The pass of the renormalization loop of arithmetic_encode for a rule.
EncodeRescale(coder, rule) ==
  CASE rule = "low"  -> Rescale(output_following_bits(output_bit(coder, 0), 1), rule)
    [] rule = "high" -> Rescale(output_following_bits(output_bit(coder, 1), 0), rule)
    [] rule = "mid"  ->
         Rescale([coder EXCEPT !.bits_to_follow = coder.bits_to_follow + 1], rule)

\* The next step of a call c of arithmetic_encode, in the steps of the
\* actions above: the set-up, a pass of the loop body up to the
\* renormalization loop, a pass of that loop, its break with the context
\* update, and the final bits with the flush.
encode_step(c) ==
  CASE c.pc = "start" ->
         [c EXCEPT !.coder = InitCoder(c.size, INITIAL_OUTPUT_CAPACITY,
                                       c.context_length),
                   !.i = 0, !.pc = "enc"]
    [] c.pc = "enc" /\ c.i < c.length ->
         [c EXCEPT !.coder =
                      Narrow(c.coder, BufBit(c.sequence, c.i),
                             ScaledP0(get_probability(c.pf, Query(c.coder)[1],
                                                      Query(c.coder)[2]))),
                   !.pc = "enc_renorm"]
    [] c.pc = "enc" /\ c.i >= c.length ->
         [c EXCEPT !.coder =
                      flush_output(FinalBits(
                        [c.coder EXCEPT !.bits_to_follow =
                                           c.coder.bits_to_follow + 1])),
                   !.pc = "encoded"]
    [] c.pc = "enc_renorm" /\ Rule(c.coder) # "none" ->
         [c EXCEPT !.coder = EncodeRescale(c.coder, Rule(c.coder))]
    [] c.pc = "enc_renorm" /\ Rule(c.coder) = "none" ->
         IF RingInBounds(c.coder)
         THEN [c EXCEPT !.coder = update_context_ring_buffer(
                                    c.coder, BufBit(c.sequence, c.i)),
                        !.i = c.i + 1, !.pc = "enc"]
         ELSE [c EXCEPT !.pc = "ub"]
    [] OTHER -> c

\* The call run to its end.
RECURSIVE RunEncode(_)
RunEncode(c) ==
  IF c.pc \in {"encoded", "ub"} THEN c ELSE RunEncode(encode_step(c))

\* arithmetic_encode as a function: the bytes it returns.
arithmetic_encode(sz, seq, n, K, f) ==
  RunEncode(EncodeCallOf(sz, seq, n, K, f)).coder.output

\* A call of arithmetic_decode about to start: its arguments, and its
\* locals coder, i, bit_index, the counter of the priming loop and scaled_p0.
DecodeCallOf(sz, bytes, buf, n, K, f) ==
  [pc |-> "dec_start", size |-> sz, encoded |-> bytes,
   encoded_length |-> Len(bytes), decoded |-> buf, length |-> n,
   context_length |-> K, pf |-> f, coder |-> ZeroCoder(sz), i |-> 0,
   bit_index |-> 0, prime_i |-> 0, scaled_p0 |-> <<0, 0>>]

\* The first half of the loop body of arithmetic_decode on a call c.
DecodeDecide(c) ==
  IF IsZero(Range(c.coder)) \/ ~RingInBounds(c.coder)
  THEN [c EXCEPT !.pc = "ub"]
  ELSE LET sp0 == ScaledP0(get_probability(c.pf, Query(c.coder)[1],
                                           Query(c.coder)[2]))
           bit == DecodedBit(ScaledValue(c.coder), sp0)
       IN [c EXCEPT !.scaled_p0 = sp0,
                    !.decoded = BufWrite(c.decoded, c.i, bit),
                    !.coder = update_context_ring_buffer(c.coder, bit),
                    !.pc = "dec_narrow"]

\* The next step of a call c of arithmetic_decode, in the steps of the
\* actions above: the set-up, a pass of the priming loop, the two halves of
\* the loop body, a pass of the renormalization loop, its break, the return.
decode_step(c) ==
  CASE c.pc = "dec_start" ->
         [c EXCEPT !.coder = InitCoder(c.size, 0, c.context_length),
                   !.i = 0, !.bit_index = 0, !.prime_i = 0,
                   !.pc = "dec_prime"]
    [] c.pc = "dec_prime" ->
         [c EXCEPT !.coder.value =
                      WShl1(c.coder.value,
                            read_bit(c.encoded, c.bit_index, c.encoded_length)[1]),
                   !.bit_index =
                      read_bit(c.encoded, c.bit_index, c.encoded_length)[2],
                   !.prime_i = c.prime_i + 1,
                   !.pc = IF c.prime_i + 1 < PRECISION THEN "dec_prime" ELSE "dec"]
    [] c.pc = "dec" /\ c.i < c.length -> DecodeDecide(c)
    [] c.pc = "dec" /\ c.i >= c.length -> [c EXCEPT !.pc = "done"]
    [] c.pc = "dec_narrow" ->
         [c EXCEPT !.coder = Narrow(c.coder, BufBit(c.decoded, c.i), c.scaled_p0),
                   !.pc = "dec_renorm"]
    [] c.pc = "dec_renorm" /\ Rule(c.coder) # "none" ->
         [c EXCEPT !.coder =
                      [Rescale(c.coder, Rule(c.coder)) EXCEPT
                         !.value =
                            WShl1(WSub(c.coder.value, Offset(Rule(c.coder))),
                                  read_bit(c.encoded, c.bit_index,
                                           c.encoded_length)[1])],
                   !.bit_index =
                      read_bit(c.encoded, c.bit_index, c.encoded_length)[2]]
    [] c.pc = "dec_renorm" /\ Rule(c.coder) = "none" ->
         [c EXCEPT !.i = c.i + 1, !.pc = "dec"]
    [] OTHER -> c

\* A call that has returned, or has left defined behaviour.
Returned(c) == c.pc \in {"encoded", "done", "ub"}

\* The next step of a call of either function.
call_step(c) ==
  IF c.pc \in {"start", "enc", "enc_renorm"} THEN encode_step(c)
  ELSE decode_step(c)

\* A call run to its end on its own.
RECURSIVE RunCall(_)
RunCall(c) == IF Returned(c) THEN c ELSE RunCall(call_step(c))

\* ------------------------------------------------------------------------
\* Two calls side by side
\* ------------------------------------------------------------------------

\* The bit length of the calls run side by side.
MaxPairN == 2

\* The calls: encodes of every input of MaxPairN bits, and decodes of two
\* streams into a zeroed buffer, all with a context of one bit.
PairCalls ==
  { EncodeCallOf(4, seq, MaxPairN, 1, "example") : seq \in Inputs(MaxPairN, {0}) }
  \cup
  { DecodeCallOf(4, bytes, [k \in 1..((MaxPairN + 7) \div 8) |-> 0],
                 MaxPairN, 1, "example") : bytes \in {<<64>>, <<149, 85>>} }

\* Two calls are about to start, on threads of their own.
InitPair ==
  /\ pc = "pair"
  /\ py = NoPy
  /\ build = 4 /\ pf = "example"
  /\ inst \in PairCalls \X PairCalls /\ calls = 0 /\ tally = NoTally
  /\ context_length = 1 /\ length = MaxPairN
  /\ sequence = <<>>
  /\ enc = ZeroCoder(build) /\ enc_i = 0
  /\ encoded = <<>> /\ encoded_length = 0
  /\ decoded = <<>> /\ decoded0 = <<>>
  /\ dec = ZeroCoder(build) /\ dec_i = 0 /\ bit_index = 0 /\ prime_i = 0
  /\ p1_fixed = <<0, 0>> /\ scaled_p0 = <<0, 0>> /\ scaled_value = <<0, 0>>
  /\ enc_queries = <<>> /\ dec_queries = <<>> /\ enc_hist = <<>>

\* A step of call t that finds the count of ones of the other call in its
\* ring, as it would were the count a static of the file: the variant that
\* tells whether a property depends on each call owning its coder.
PairStep_shared_count(t) ==
  /\ pc = "pair" /\ ~Returned(inst[t])
  /\ inst' = [inst EXCEPT ![t] =
                call_step([inst[t] EXCEPT !.coder.count_ones =
                                            inst[3 - t].coder.count_ones])]
  /\ UNCHANGED <<pc, build, sequence, pf, calls, tally, length, context_length, py,
                 encVars, decVars, loopVars>>

\* The thread of call t takes the call's next step, on the call's own
\* locals.
PairStep(t) ==
  /\ pc = "pair" /\ ~Returned(inst[t])
  /\ inst' = [inst EXCEPT ![t] = call_step(inst[t])]
  /\ UNCHANGED <<pc, build, sequence, pf, calls, tally, length, context_length, py,
                 encVars, decVars, loopVars>>

NextPair == \E t \in {1, 2} : PairStep(t)

SpecPair == InitPair /\ [][NextPair]_vars

\* ------------------------------------------------------------------------
\* clamp_probability_fixed
\* ------------------------------------------------------------------------

\* The clamp with p1_fixed or-ed in unmasked: the variant that tells whether
\* a property depends on the masks clearing a value out of range.
clamp_probability_fixed_unmasked(p1) ==
  LET mask_low == WNeg(WBool(WLt(p1, W1)))
      mask_high == WNeg(WBool(WLe(WFixedScale, p1)))
  IN WOr(WOr(p1, WAnd(W1, mask_low)),
         WAnd(WSub(WFixedScale, W1), mask_high))

\* The branchless clamp_probability_fixed of glorious/c: the two masks, and
\* (p1_fixed & ~(mask_low | mask_high)) | (1 & mask_low)
\*   | ((FIXED_SCALE - 1) & mask_high).
clamp_probability_fixed(p1) ==
  LET mask_low == WNeg(WBool(WLt(p1, W1)))
      mask_high == WNeg(WBool(WLe(WFixedScale, p1)))
  IN WOr(WOr(WAnd(p1, WNot(WOr(mask_low, mask_high))), WAnd(W1, mask_low)),
         WAnd(WSub(WFixedScale, W1), mask_high))

\* The branching clamp_probability_fixed of compression/c.
clamp_probability_fixed_branching(p1) ==
  IF WLt(p1, W1) THEN W1
  ELSE IF WLt(WSub(WFixedScale, W1), p1) THEN WSub(WFixedScale, W1)
  ELSE p1

\* The limbs the inputs are made of: the MaxLimb + 1 lowest, the MaxLimb + 1
\* highest, and the two around the middle.
MaxLimb == 3
LimbSamples ==
  (0..MaxLimb) \cup ((Base - 1 - MaxLimb)..(Base - 1))
  \cup {Base \div 2 - 1, Base \div 2}
ClampInputs == LimbSamples \X LimbSamples

\* A predictor has returned p1_fixed, any uint32_t.
InitClamp ==
  /\ pc = "clamp"
  /\ p1_fixed \in ClampInputs
  /\ py = NoPy /\ inst = <<>> /\ calls = 0 /\ tally = NoTally
  /\ build = 4 /\ pf = "example"
  /\ context_length = 0 /\ length = 0
  /\ sequence = <<>>
  /\ enc = ZeroCoder(build) /\ enc_i = 0
  /\ encoded = <<>> /\ encoded_length = 0
  /\ decoded = <<>> /\ decoded0 = <<>>
  /\ dec = ZeroCoder(build) /\ dec_i = 0 /\ bit_index = 0 /\ prime_i = 0
  /\ scaled_p0 = <<0, 0>> /\ scaled_value = <<0, 0>>
  /\ enc_queries = <<>> /\ dec_queries = <<>> /\ enc_hist = <<>>

\* p1_fixed = clamp_probability_fixed(p1_fixed), in either version, and a
\* second time.
ClampCall ==
  /\ pc = "clamp"
  /\ p1_fixed' = clamp_probability_fixed(p1_fixed)
  /\ pc' = "clamped"
  /\ UNCHANGED <<callVars, encVars, decVars, scaled_p0, scaled_value>>

ClampCallBranching ==
  /\ pc = "clamp"
  /\ p1_fixed' = clamp_probability_fixed_branching(p1_fixed)
  /\ pc' = "clamped"
  /\ UNCHANGED <<callVars, encVars, decVars, scaled_p0, scaled_value>>

ClampAgain ==
  /\ pc = "clamped"
  /\ p1_fixed' = clamp_probability_fixed(p1_fixed)
  /\ pc' = "clamped_twice"
  /\ UNCHANGED <<callVars, encVars, decVars, scaled_p0, scaled_value>>

NextClamp == ClampCall \/ ClampCallBranching \/ ClampAgain

SpecClamp == InitClamp /\ [][NextClamp]_vars

\* ------------------------------------------------------------------------
\* The reference predictor on its own
\* ------------------------------------------------------------------------

\* The context lengths the predictor is asked about: the small ones, those
\* around 2 * FIXED_SCALE - 2, where the rounded quotient leaves
\* [1, FIXED_SCALE - 1], and the largest one.
MaxPredK == 8
PredContexts ==
  (0..MaxPredK)
  \cup ((2 * FIXED_SCALE - 4)..(2 * FIXED_SCALE))
  \cup {K_max}

\* The counts asked about for a context of K bits: all of them for a small
\* K, the two lowest and the two highest for a large one.
PredCounts(K) ==
  IF K <= MaxPredK THEN 0..K ELSE {0, 1, K - 1, K}

\* A coder of a context of K bits whose ring holds `ones` ones, `at` being
\* where its next bit goes.
InitPredictor ==
  /\ pc = "predict"
  /\ py = NoPy /\ inst = <<>> /\ calls = 0 /\ tally = NoTally
  /\ build = 4 /\ pf = "example"
  /\ context_length \in PredContexts /\ length = 0
  /\ sequence = <<>>
  /\ \E ones \in PredCounts(context_length), at \in {0, 1} :
       enc = [ZeroCoder(build) EXCEPT
                !.context_capacity = context_length,
                !.context_index = IF context_length = 0 THEN 0 ELSE at,
                !.count_ones = Ext(U32(ones), build)]
  /\ enc_i = 0
  /\ encoded = <<>> /\ encoded_length = 0
  /\ decoded = <<>> /\ decoded0 = <<>>
  /\ dec = ZeroCoder(build) /\ dec_i = 0 /\ bit_index = 0 /\ prime_i = 0
  /\ p1_fixed = <<0, 0>> /\ scaled_p0 = <<0, 0>> /\ scaled_value = <<0, 0>>
  /\ enc_queries = <<>> /\ dec_queries = <<>> /\ enc_hist = <<>>

\* p1_fixed = get_probability_fixed(&context_content).
PredictorCall ==
  /\ pc = "predict"
  /\ p1_fixed' = get_probability(pf, Query(enc)[1], Query(enc)[2])
  /\ pc' = "predicted"
  /\ UNCHANGED <<callVars, encVars, decVars, scaled_p0, scaled_value>>

SpecPredictor == InitPredictor /\ [][PredictorCall]_vars

\* ------------------------------------------------------------------------
\* One call after another
\* ------------------------------------------------------------------------

\* The calls a session makes after its first.
MaxCalls == 1

\* The bit lengths of the calls of a session.
MaxSessionN == 2

\* The caller, back from encode or from decode, calls encode again with
\* other arguments.  The locals of the calls that returned are dead: what
\* they held is what the stack may still hold.
CallAgain ==
  /\ pc \in {"encoded", "done"} /\ py = NoPy /\ calls < MaxCalls
  /\ calls' = calls + 1
  /\ length' \in 0..MaxSessionN
  /\ context_length' \in {0, MaxK}
  /\ sequence' \in Inputs(length', {0})
  /\ encoded' = <<>> /\ encoded_length' = 0
  /\ decoded' = <<>> /\ decoded0' = <<>>
  /\ enc_i' = 0 /\ dec_i' = 0 /\ bit_index' = 0 /\ prime_i' = 0
  /\ enc_queries' = <<>> /\ dec_queries' = <<>> /\ enc_hist' = <<>>
  /\ pc' = "start"
  /\ UNCHANGED <<build, pf, inst, py, enc, dec, loopVars, tally>>

\* Sessions of the reference predictor on the 64-bit build with a context
\* of one bit to begin with.
InitSession == InitWith({"example"}, {1}, {4}, {0}) /\ length <= MaxSessionN

NextSession == Next \/ CallAgain

SpecSession == InitSession /\ [][NextSession]_vars

\* ------------------------------------------------------------------------
\* Properties
\* ------------------------------------------------------------------------

\* Where the session is inside arithmetic_encode's loop, and inside
\* arithmetic_decode after its priming loop.
EncStates == {"enc", "enc_renorm"}
DecStates == {"dec", "dec_narrow", "dec_renorm"}

\* The first n bits of two packed buffers agree.
SameBits(a, b, n) == \A i \in 0..(n - 1) : BufBit(a, i) = BufBit(b, i)

\* C1 -- Round trip: for every input, every N, every K in [0, K_max] and a
\* predictor staying in [1, S-1], decode run on the bytes encode returned
\* writes decoded bits 0..N-1 equal to input bits 0..N-1.
RoundTrip ==
  (pc = "done" /\ context_length <= K_max) => SameBits(decoded, sequence, length)

\* A finished round trip of a 1 followed by a 0 with a one-bit context.
RoundTripReached ==
  /\ pc = "done" /\ length >= 2 /\ context_length = 1 /\ pf = "example"
  /\ BufBit(sequence, 0) = 1 /\ BufBit(sequence, 1) = 0
  /\ BufBit(decoded, 0) = 1 /\ BufBit(decoded, 1) = 0

\* C2 -- Lock-step: after the decoder has finished bit i its (low, high,
\* context ring, context_index, count_ones) equal the encoder's after it
\* finished bit i, and the decoder's i-th predictor query carries the
\* arguments of the encoder's i-th query.
LockStep ==
  /\ (pc \in {"dec", "done"} /\ dec_i >= 1) => Snapshot(dec) = enc_hist[dec_i]
  /\ Len(dec_queries) <= Len(enc_queries)
  /\ \A i \in 1..Len(dec_queries) : dec_queries[i] = enc_queries[i]
  /\ pc = "done" => Len(dec_queries) = length /\ Len(enc_queries) = length

\* The decoder has finished its second bit with a 1 in a two-bit ring.
LockStepReached ==
  /\ pc = "dec" /\ dec_i = 2 /\ context_length = 2 /\ pf = "example"
  /\ dec.context_buffer # {}
  /\ Len(dec_queries) = 2

\* 0 <= low <= high < 2^P.
Ordered(coder) ==
  WLe(coder.low, coder.high) /\ WLt(coder.high, TOTAL_FREQUENCY)

\* The cut point low + range * scaled_p0 / 2^P of the next bit lies in
\* (low, high], for the answer the predictor gives in this state.  (The
\* tuple lists the steps in the order they are computed.)
CutInside(coder) ==
  LET p1  == get_probability(pf, Query(coder)[1], Query(coder)[2])
      sp0 == ScaledP0(p1)
      cut == Trunc(WAdd(Ext(coder.low, 4), Share(coder, sp0)), 2)
  IN <<p1, sp0, cut, WLt(coder.low, cut) /\ WLe(cut, coder.high)>>[4]

\* C3 -- Interval invariant: with p1 in [1, S-1] on every query,
\* 0 <= low <= high < 2^P after every narrowing and every rescaling step of
\* encode and decode, and the cut of every coded bit has low < cut <= high.
IntervalInvariant ==
  /\ pc \in EncStates => Ordered(enc)
  /\ pc \in DecStates => Ordered(dec)
  /\ (pc = "enc" /\ enc_i < length) => CutInside(enc)
  /\ (pc = "dec" /\ dec_i < length) => CutInside(dec)

\* The encoder has just narrowed to the small side: a 1 under the predictor
\* that always answers p1 = 1.
IntervalInvariantReached ==
  /\ pc = "enc_renorm" /\ pf = "low" /\ BufBit(sequence, enc_i) = 1
  /\ enc_i = 1
  /\ WLt(WSub(enc.high, enc.low), QUARTER)

\* C4 -- Decoder value invariant: for every encoded byte string (valid,
\* truncated, empty or corrupted), low <= value <= high after priming, after
\* every narrowing and after every rescaling step of decode.
ValueInvariant ==
  pc \in DecStates \cup {"done"} =>
    WLe(dec.low, dec.value) /\ WLe(dec.value, dec.high)

\* The decoder rescales while reading a stream of the right length that is
\* not what encode returned.
ValueInvariantReached ==
  /\ pc = "dec_renorm" /\ dec_i >= 1
  /\ encoded # enc.output /\ encoded_length = Len(enc.output)
  /\ Rule(dec) # "none"

\* The count_ones field as a number, when it is one that fits.
Popcount(coder) == Cardinality(coder.context_buffer)

\* C5 -- Context popcount: the stored count_ones field equals the number of
\* 1 bits held in ring positions 0..K-1, and 0 <= count_ones <= K, also
\* after an update that overwrites a 1 with a 0.
ContextPopcount ==
  /\ pc \in EncStates \cup {"encoded"} =>
       /\ enc.count_ones = Ext(U32(Popcount(enc)), build)
       /\ Popcount(enc) <= context_length
  /\ pc \in DecStates \cup {"done"} =>
       /\ dec.count_ones = Ext(U32(Popcount(dec)), build)
       /\ Popcount(dec) <= context_length

\* C6 -- Clamping before use: whatever the predictor returns, the p1_fixed
\* from which encode and decode compute p0 = S - p1 and scaled_p0 lies in
\* [1, S-1].
ClampedBeforeUse ==
  (Len(enc_queries) > 0 \/ Len(dec_queries) > 0) =>
    WLe(W1, p1_fixed) /\ WLt(p1_fixed, WFixedScale)

\* C7 -- Context length above the bound is rejected: a call with
\* K > K_max ends before any coder state is set up, so the session never
\* leaves its start and the coder stays untouched.
RejectedAboveBound ==
  context_length > K_max =>
    /\ pc = "start"
    /\ enc = ZeroCoder(build) /\ dec = ZeroCoder(build)

\* The context updates arithmetic_decode has made so far.
DecUpdates == dec_i + (IF pc \in {"dec_narrow", "dec_renorm"} THEN 1 ELSE 0)

\* The ring of a coder after n updates with capacity K >= 1: the index is
\* n modulo K, below K, and every byte touched lies inside context_buffer.
RingAt(coder, n, K) ==
  /\ coder.context_index < K
  /\ coder.context_index = n % K
  /\ coder.context_index \div 8 < MAX_CONTEXT_BYTES
  /\ \A pos \in coder.context_buffer :
       pos[1] < MAX_CONTEXT_BYTES /\ 8 * pos[1] + (7 - pos[2]) < K

\* C8 -- Ring index bound: for 1 <= K <= K_max, after every context update
\* 0 <= context_index < K, every ring access touches a byte below
\* MAX_CONTEXT_BYTES, and context_index advances by 1 modulo K per coded
\* bit; for K = 0 context_index stays 0.
RingIndexBound ==
  /\ (context_length >= 1 /\ context_length <= K_max) =>
       /\ pc # "ub"
       /\ pc \in EncStates \cup {"encoded", "ring"} =>
            RingAt(enc, enc_i, context_length)
       /\ pc \in DecStates \cup {"done"} => RingAt(dec, DecUpdates, context_length)
  /\ context_length = 0 => enc.context_index = 0 /\ dec.context_index = 0

\* A ring of exactly K_max bits has wrapped: its last bit, in the last byte
\* of context_buffer, was written as a 1 and the index is back at 0.
RingIndexBoundReached ==
  /\ pc = "ring" /\ context_length = K_max
  /\ enc_i = K_max /\ enc.context_index = 0
  /\ <<MAX_CONTEXT_BYTES - 1, 0>> \in enc.context_buffer

\* The query a predictor gets from a coder without context.
NoContext == <<<<0, 0>>, <<0, 0>>>>

\* A coder whose ring, index and count are as they were set up.
Untouched(coder) ==
  /\ coder.context_buffer = {}
  /\ coder.context_index = 0
  /\ IsZero(coder.count_ones)

\* C9 -- Zero context: with K = 0 the context update changes nothing and
\* count_ones stays 0, the predictor is queried with (0, 0) once for every
\* coded bit in encode and in decode, and the round trip holds.
ZeroContext ==
  context_length = 0 =>
    /\ Untouched(enc) /\ Untouched(dec)
    /\ \A i \in 1..Len(enc_queries) : enc_queries[i] = NoContext
    /\ \A i \in 1..Len(dec_queries) : dec_queries[i] = NoContext
    /\ pc \in {"enc", "encoded"} => Len(enc_queries) = enc_i
    /\ pc \in {"dec", "done"} => Len(dec_queries) = dec_i
    /\ pc = "done" => /\ enc_i = length /\ dec_i = length
                      /\ SameBits(decoded, sequence, length)

\* A finished round trip without context whose bits are not all alike.
ZeroContextReached ==
  /\ pc = "done" /\ context_length = 0 /\ length >= 2
  /\ BufBit(sequence, 0) # BufBit(sequence, 1)
  /\ Len(enc_queries) = length /\ Len(dec_queries) = length

\* C10 -- Empty input: encode with N = 0 never queries the predictor and
\* returns the single byte 0x40 (the final bits 0, 1 and six padding zeros);
\* decode with N = 0 on it never queries the predictor and leaves every bit
\* of decoded as it was.
EmptyInput ==
  length = 0 =>
    /\ enc_queries = <<>> /\ dec_queries = <<>>
    /\ pc \in {"encoded", "dec_prime", "dec", "done"} =>
         enc.output = <<64>> /\ enc.output_size = 1
    /\ pc \in {"dec_prime", "dec", "done"} => decoded = decoded0
    /\ pc \notin {"enc_renorm", "dec_narrow", "dec_renorm", "ub"}

\* decode has returned from an empty call on a buffer of 0xFF bytes.
EmptyInputReached ==
  /\ pc = "done" /\ length = 0
  /\ encoded = <<64>>
  /\ \A k \in 1..Len(decoded) : decoded[k] = 255

\* Where a binding call is before it has decided on its context_length.
PyEntry == {"py_encode", "py_decode"}

StreamBit(bytes, c) ==
  IF c < 8 * Len(bytes) THEN (bytes[(c \div 8) + 1] \div (2^(7 - (c % 8)))) % 2
  ELSE 0

\* The number spelled by the first n bits of that stream.
RECURSIVE StreamPrefix(_, _)
StreamPrefix(bytes, n) ==
  IF n = 0 THEN 0 ELSE 2 * StreamPrefix(bytes, n - 1) + StreamBit(bytes, n - 1)

\* The steps of arithmetic_decode that call read_bit.
Reading == pc = "dec_prime" \/ (pc = "dec_renorm" /\ Rule(dec) # "none")

\* C12 -- read_bit: with the cursor c inside the buffer (c/8 < L) the call
\* yields bit c, most significant bit first, and moves the cursor by 1; with
\* c/8 >= L it yields 0 and leaves the cursor.  So the bits the decoder
\* reads are the 8*L bits of the buffer followed by zeros: the cursor never
\* passes 8*L, and the priming loop leaves in value exactly the first
\* prime_i bits of that stream.
ReadBitFrame ==
  /\ [](pc \in {"dec_prime"} \cup DecStates \cup {"done"} =>
         /\ bit_index <= 8 * encoded_length
         /\ pc \in {"dec_prime", "dec"} /\ dec_i = 0 =>
              /\ ToInt(dec.value) = StreamPrefix(encoded, prime_i)
              /\ bit_index = IF prime_i < 8 * encoded_length
                             THEN prime_i ELSE 8 * encoded_length)
  /\ [][Reading =>
         /\ dec'.value[1] % 2 = StreamBit(encoded, bit_index)
         /\ bit_index' = IF bit_index \div 8 < encoded_length
                         THEN bit_index + 1 ELSE bit_index]_vars

\* The priming loop has read a whole buffer holding a 1 and then zeros
\* beyond its end.
ReadBitFrameReached ==
  /\ pc = "dec" /\ dec_i = 0 /\ prime_i = PRECISION
  /\ encoded_length >= 1 /\ bit_index = 8 * encoded_length
  /\ ~IsZero(dec.value)

\* floor(log2(q)) for 1 <= q <= 2^30.
Log2(q) == CHOOSE k \in 0..30 : 2^k <= q /\ (k = 30 \/ q < 2^(k + 1))

\* How many more times the renormalization loop can double a range r
\* before it passes 2^PRECISION.
Room(r) ==
  IF IsZero(r) \/ WLt(HALF, r) THEN 0
  ELSE 1 + Log2((2^30) \div ToInt(r))

\* Steps of arithmetic_decode per decoded bit, at most: the decision, the
\* narrowing, PRECISION + 1 passes of the renormalization loop and the break.
PerBit == PRECISION + 4

\* An upper bound on the steps arithmetic_decode still has to make.
StepsLeft ==
  CASE pc = "dec_prime"  -> (PRECISION - prime_i) + length * PerBit + 1
    [] pc = "dec"        -> (length - dec_i) * PerBit + 1
    [] pc = "dec_narrow" -> (length - dec_i) * PerBit
    [] pc = "dec_renorm" -> (length - dec_i) * PerBit - (PRECISION + 2) + Room(Range(dec))
    [] OTHER             -> 0

\* Where arithmetic_decode is running, and whether the statement it is at
\* can be executed.
Decoding == {"dec_prime"} \cup DecStates
CanStep ==
  \/ pc = "dec_prime" /\ prime_i < PRECISION
  \/ pc = "dec" /\ dec_i <= length /\ ~IsZero(Range(dec)) /\ RingInBounds(dec)
  \/ pc = "dec_narrow"
  \/ pc = "dec_renorm" /\ Rule(dec) \in {"low", "high", "mid", "none"}

\* A step of the running arithmetic_decode stays in it or returns, and
\* lowers the bound on the steps left.
StepsDown ==
  pc \in Decoding =>
    (pc' \in Decoding \cup {"done"} /\ StepsLeft' < StepsLeft)

\* C13 -- Decoding never fails: on every encoded byte string (what encode
\* returned, a truncation of it, the empty string, a corruption of it)
\* arithmetic_decode runs into no undefined operation, keeps its cursor
\* within the 8 * encoded_length bits of the buffer, and returns having
\* decided exactly N bits: every step it takes lowers a bound on the steps
\* left, and it is never stuck before its return.
DecodeNeverFails ==
  /\ [](/\ pc # "ub"
        /\ pc \in Decoding \cup {"done"} =>
             /\ bit_index <= 8 * encoded_length
             /\ dec_i <= length /\ Len(dec_queries) <= length
        /\ pc \in Decoding => CanStep /\ StepsLeft > 0
        /\ pc = "done" => dec_i = length /\ Len(dec_queries) = length)
  /\ [][StepsDown]_vars

\* decode has returned from a truncated stream after reading past its end
\* while decoding.
DecodeNeverFailsReached ==
  /\ pc = "done" /\ length = MaxN
  /\ encoded_length < Len(enc.output)
  /\ bit_index = 8 * encoded_length

\* The bit positions of the decoded buffer.
DecodedBits == 0..(8 * Len(decoded) - 1)

\* A step that changes the decoded buffer is the decision on bit dec_i, and
\* changes no other bit; every decision on bit dec_i leaves the decided bit
\* at byte dec_i / 8, shift 7 - (dec_i mod 8), and moves on to bit dec_i + 1
\* only.
WriteStep ==
  /\ (pc \in DecStates /\ decoded' # decoded) =>
       /\ pc = "dec" /\ pc' = "dec_narrow"
       /\ Len(decoded') = Len(decoded)
       /\ \A j \in DecodedBits : j # dec_i => BufBit(decoded', j) = BufBit(decoded, j)
  /\ (pc = "dec" /\ pc' = "dec_narrow") =>
       (decoded'[(dec_i \div 8) + 1] \div (2^(7 - (dec_i % 8)))) % 2
         = DecodedBit(scaled_value', scaled_p0')
  /\ pc \in DecStates => dec_i' \in {dec_i, dec_i + 1}
  /\ (pc = "dec" /\ pc' = "dec_narrow") => dec_i' = dec_i
  /\ (pc \in DecStates /\ pc' = "dec" /\ pc # "dec") => dec_i' = dec_i + 1

\* C14 -- Decoder write frame: arithmetic_decode stores each decided bit i
\* of 0..N-1 once, at byte i/8 with shift 7 - (i mod 8), whether the buffer
\* held 0x00 or 0xFF bytes; the bits not yet decided and every bit at index
\* >= N are as the caller passed them.
WriteFrame ==
  /\ [](pc \in DecStates \cup {"done"} =>
         /\ DecUpdates <= length
         /\ \A j \in DecodedBits :
              j >= DecUpdates => BufBit(decoded, j) = BufBit(decoded0, j))
  /\ [][WriteStep]_vars

\* decode has returned into a buffer of 0xFF bytes with a 0 stored in it and
\* the bits from N on still set.
WriteFrameReached ==
  /\ pc = "done" /\ length = 2 /\ decoded0 = <<255>>
  /\ BufBit(decoded, 0) = 0 /\ BufBit(decoded, 1) = 1
  /\ decoded[1] % 64 = 63

\* buf with every bit at index >= n cleared.
Canon(buf, n) ==
  [k \in 1..Len(buf) |->
     IF 8 * k <= n THEN buf[k]
     ELSE IF 8 * (k - 1) >= n THEN 0
     ELSE buf[k] - (buf[k] % (2^(8 * k - n)))]

\* C15 -- Padding independence: input buffers that agree on bits 0..N-1
\* encode to the same bytes, whatever their bits from N on: the bytes
\* arithmetic_encode returns for a buffer are those it returns for the
\* buffer with all padding bits cleared, and decoding them gives the first
\* N bits of that buffer.
PaddingIndependence ==
  /\ (pc = "encoded" /\ context_length <= MaxK) =>
       enc.output = arithmetic_encode(build, Canon(sequence, length), length,
                                      context_length, pf)
  /\ (pc = "done" /\ context_length <= MaxK) =>
       SameBits(decoded, Canon(sequence, length), length)

\* encode has returned for a buffer whose padding bits are all 1.
PaddingIndependenceReached ==
  /\ pc = "encoded" /\ length = 2
  /\ sequence[1] % 64 = 63 /\ BufBit(sequence, 0) = 0
  /\ Canon(sequence, length) # sequence

\* The bits of a byte string, most significant bit of each byte first.
OutputBits(bytes) ==
  [k \in 1..(8 * Len(bytes)) |->
     (bytes[((k - 1) \div 8) + 1] \div (2^(7 - ((k - 1) % 8)))) % 2]

\* The bits a coder has been given so far: those of its output bytes, then
\* the bit_count bits waiting in its accumulator, oldest first.
Written(coder) ==
  OutputBits(coder.output) \o
  [j \in 1..coder.bit_count |->
     (coder.bit_buffer \div (2^(coder.bit_count - j))) % 2]

\* A bit followed by the coder's pending bits_to_follow opposite bits, which
\* is what a pass of the renormalization loop emits.
BitThenFollow(bit, follow) == <<bit>> \o [j \in 1..follow |-> 1 - bit]

\* What a step of arithmetic_encode emits: nothing, or a bit and the
\* following bits, or the final bits.
Emits ==
  CASE pc = "enc_renorm" /\ Rule(enc) = "low"  -> BitThenFollow(0, enc.bits_to_follow)
    [] pc = "enc_renorm" /\ Rule(enc) = "high" -> BitThenFollow(1, enc.bits_to_follow)
    [] pc = "enc" /\ enc_i = length ->
         BitThenFollow(IF WLt(enc.low, QUARTER) THEN 0 ELSE 1, enc.bits_to_follow + 1)
    [] OTHER -> <<>>

\* Each step appends what it emits to the bits written; the last step also
\* pads them with zeros to whole bytes and empties the accumulator.
PackingStep ==
  /\ (pc \in EncStates /\ pc' \in EncStates) =>
       Written(enc') = Written(enc) \o Emits
  /\ (pc = "enc" /\ pc' = "encoded") =>
       /\ Len(enc'.output) = (Len(Written(enc) \o Emits) + 7) \div 8
       /\ \A k \in 1..(8 * Len(enc'.output)) :
            OutputBits(enc'.output)[k] =
              IF k <= Len(Written(enc) \o Emits)
              THEN (Written(enc) \o Emits)[k] ELSE 0

\* C16 -- Output packing: the bits the encoder emits through output_bit and
\* output_following_bits, e_0..e_{m-1}, end up after flush_output in exactly
\* ceil(m/8) bytes, e_k at byte k/8 with shift 7 - (k mod 8), the rest of
\* the last byte 0; between output operations 0 <= bit_count < 8, and
\* bit_count = 0 after the flush.
OutputPacking ==
  /\ [](pc \in EncStates \cup {"encoded"} =>
         /\ enc.bit_count \in 0..7
         /\ enc.bit_buffer < 2^enc.bit_count
         /\ enc.output_size = Len(enc.output)
         /\ enc.output_size <= enc.output_capacity
         /\ pc = "encoded" => enc.bit_count = 0)
  /\ [][PackingStep]_vars

\* encode has returned several bytes, the last one holding bits and padding.
OutputPackingReached ==
  /\ pc = "encoded" /\ enc.output_size >= 3
  /\ enc.output[enc.output_size] # 0
  /\ enc.output[enc.output_size] % 2 = 0

\* The ring part of a coder, which the context update writes.
Ring(coder) ==
  <<coder.context_buffer, coder.context_index, coder.count_ones>>

\* A query is made at the top of the loop body, of the coder as bit i finds
\* it, and the step that finishes bit i makes none.
QueryStep ==
  /\ enc_queries' # enc_queries =>
       /\ pc = "enc" /\ pc' = "enc_renorm"
       /\ Len(enc_queries) = enc_i /\ enc_i' = enc_i
       /\ enc_queries' = Append(enc_queries, Query(enc))
       /\ Ring(enc') = Ring(enc)
  /\ enc_i' # enc_i =>
       /\ enc_queries' = enc_queries
       /\ Len(enc_queries) = enc_i'
  /\ dec_queries' # dec_queries =>
       /\ pc = "dec" /\ pc' \in {"dec_narrow", "ub"}
       /\ Len(dec_queries) = dec_i /\ dec_i' = dec_i
       /\ dec_queries' = Append(dec_queries, Query(dec))
  /\ (dec_i' # dec_i /\ pc \in DecStates) =>
       /\ dec_queries' = dec_queries
       /\ Len(dec_queries) = dec_i'
  /\ (pc = "dec_narrow" \/ pc = "dec_renorm") => Ring(dec') = Ring(dec)

\* C17 -- The predictor is invoked exactly once per coded bit: N calls in
\* an encode and N in a decode of N bits, the i-th before bit i is narrowed
\* on and before it is written to the ring.
PredictorOncePerBit ==
  /\ [](/\ pc = "enc" => Len(enc_queries) = enc_i
        /\ pc = "enc_renorm" => Len(enc_queries) = enc_i + 1
        /\ pc \in {"encoded", "done"} \cup DecStates =>
             Len(enc_queries) = length
        /\ pc = "dec" => Len(dec_queries) = dec_i
        /\ pc \in {"dec_narrow", "dec_renorm"} => Len(dec_queries) = dec_i + 1
        /\ pc = "done" => Len(dec_queries) = length
        /\ pc \in {"start", "enc", "enc_renorm", "encoded"} => dec_queries = <<>>)
  /\ [][QueryStep]_vars

\* Both sides have coded MaxN bits with a context, and the queries differ.
PredictorOncePerBitReached ==
  /\ pc = "done" /\ length = MaxN /\ context_length > 0
  /\ Len(enc_queries) = MaxN /\ Len(dec_queries) = MaxN
  /\ dec_queries[1] # dec_queries[MaxN]

\* ------------------------------------------------------------------------
\* Constant inputs
\* ------------------------------------------------------------------------

\* The longest constant input and the longest context tried with it.
MaxConstN == 17
MaxConstK == 2

\* n bits, all of them `bit`, packed most significant bit first in
\* (n + 7) / 8 bytes, the padding bits 0.
ConstantInput(n, bit) ==
  [k \in 1..((n + 7) \div 8) |->
     IF bit = 0 THEN 0
     ELSE IF 8 * k <= n THEN 255 ELSE 256 - 2^(8 * k - n)]

\* A call of the reference predictor on a constant input of n bits, for n
\* in Ns, with a context length in Ks.
InitLong(Ns, Ks) ==
  /\ pc = "start"
  /\ py = NoPy /\ inst = <<>> /\ calls = 0 /\ tally = NoTally
  /\ build = 4
  /\ pf = "example"
  /\ context_length \in Ks
  /\ length \in Ns
  /\ \E bit \in {0, 1} : sequence = ConstantInput(length, bit)
  /\ enc = ZeroCoder(build) /\ enc_i = 0
  /\ encoded = <<>> /\ encoded_length = 0
  /\ decoded = <<>> /\ decoded0 = <<>>
  /\ dec = ZeroCoder(build) /\ dec_i = 0 /\ bit_index = 0 /\ prime_i = 0
  /\ p1_fixed = <<0, 0>> /\ scaled_p0 = <<0, 0>> /\ scaled_value = <<0, 0>>
  /\ enc_queries = <<>> /\ dec_queries = <<>> /\ enc_hist = <<>>

InitConstant == Init \/ InitLong(16..MaxConstN, 0..MaxConstK)

SpecConstant == InitConstant /\ [][Next]_vars

\* The input of the call is n >= 16 times the same bit, under the reference
\* predictor.
IsConstant(bit) ==
  /\ pf = "example" /\ length >= 16
  /\ \A i \in 0..(length - 1) : BufBit(sequence, i) = bit

InitScenario == Init \/ InitLong({8 * 128}, {8})

SpecScenario == InitScenario /\ [][Next]_vars

\* The call in hand is the one on 128 bytes of 0xFF.
IsScenario ==
  /\ length = 8 * 128 /\ context_length = 8 /\ pf = "example"
  /\ sequence = [k \in 1..128 |-> 255]

\* C19 -- Scenario: encoding 128 bytes of 0xFF with N = 1024 and K = 8
\* under the reference predictor returns fewer than 128 bytes, and decoding
\* that output with N = 1024 and K = 8 returns the original 128 bytes.
ScenarioFF ==
  IsScenario =>
    /\ pc # "ub"
    /\ pc \in {"encoded", "dec_prime", "done"} \cup DecStates =>
         /\ enc.output_size < 128
         /\ 8 * Len(enc.output) < length
    /\ pc \in {"dec_prime", "done"} \cup DecStates => encoded = enc.output
    /\ pc = "done" => decoded = sequence

\* The 128 bytes have come back from fewer.
ScenarioFFReached ==
  /\ IsScenario /\ pc = "done"
  /\ decoded = [k \in 1..128 |-> 255]
  /\ encoded_length < 128

\* The call as it was when it started: its arguments, and fresh locals.
Started(c) ==
  IF c.pc \in {"start", "enc", "enc_renorm", "encoded"}
  THEN EncodeCallOf(c.size, c.sequence, c.length, c.context_length, c.pf)
  ELSE DecodeCallOf(c.size, c.encoded, [k \in 1..Len(c.decoded) |-> 0],
                    c.length, c.context_length, c.pf)

\* A step moves one call and leaves the other as it was.
OneCallMoves ==
  \E t \in {1, 2} : inst'[3 - t] = inst[3 - t] /\ inst'[t] # inst[t]

Fresh(coder) ==
  /\ IsZero(coder.low) /\ coder.high = WSub(TOTAL_FREQUENCY, W1)
  /\ IsZero(coder.value)
  /\ coder.bits_to_follow = 0
  /\ coder.bit_buffer = 0 /\ coder.bit_count = 0
  /\ coder.output = <<>> /\ coder.output_size = 0
  /\ coder.context_buffer = {} /\ coder.context_index = 0
  /\ IsZero(coder.count_ones)
  /\ coder.context_capacity = context_length

\* The set-up of either function leaves a fresh coder.
StartsFresh ==
  /\ (pc = "start" /\ pc' = "enc") => Fresh(enc')
  /\ (pc = "encoded" /\ pc' = "dec_prime") => Fresh(dec')

\* C21 -- No state persists between calls: every encode and decode call
\* starts from low = 0, high = 2^P - 1, pending = 0, an all-zero ring,
\* context_index = 0 and count_ones = 0, so what a call returns is a
\* function of its arguments only, whatever calls preceded it.
NoStatePersists ==
  /\ [](/\ pc = "encoded" =>
             enc.output = arithmetic_encode(build, sequence, length,
                                            context_length, pf)
        /\ pc = "done" =>
             decoded = RunCall(DecodeCallOf(build, encoded, decoded0, length,
                                            context_length, pf)).decoded)
  /\ [][StartsFresh]_vars

\* A second encode has returned bytes while the coder of the decode before
\* it still holds a narrowed interval and a count of ones.
NoStatePersistsReached ==
  /\ calls = 1 /\ pc = "encoded" /\ enc.output_size > 0
  /\ ~IsZero(dec.low) /\ ~IsZero(dec.count_ones)

\* p lies in [1, S - 1].
InScale(p) == WLe(W1, p) /\ WLt(p, WFixedScale)

\* min(max(p, 1), S - 1).
MinMax(p) ==
  LET m == IF WLt(p, W1) THEN W1 ELSE p
  IN IF WLt(WSub(WFixedScale, W1), m) THEN WSub(WFixedScale, W1) ELSE m

\* C22 -- clamp_probability_fixed is a clamp onto [1, S-1]: the result is
\* min(max(p, 1), S-1) for every input p, it is p for p in [1, S-1],
\* clamping twice is clamping once, and the branchless and the branching
\* version agree on every input.
ClampIsClamp ==
  /\ pc = "clamp" =>
       /\ clamp_probability_fixed(p1_fixed) = MinMax(p1_fixed)
       /\ InScale(p1_fixed) => clamp_probability_fixed(p1_fixed) = p1_fixed
       /\ clamp_probability_fixed(clamp_probability_fixed(p1_fixed)) =
            clamp_probability_fixed(p1_fixed)
       /\ clamp_probability_fixed_branching(p1_fixed) =
            clamp_probability_fixed(p1_fixed)
  /\ pc \in {"clamped", "clamped_twice"} =>
       /\ InScale(p1_fixed)
       /\ clamp_probability_fixed(p1_fixed) = p1_fixed

\* A value far above the scale has been clamped to S - 1, twice.
ClampIsClampReached ==
  pc = "clamped_twice" /\ p1_fixed = WSub(WFixedScale, W1)

\* q is floor(num / den) for the 64-bit num and the 32-bit den:
\* q * den <= num < q * den + den.
IsFloor(q, num, den) ==
  /\ WLe(WMul(q, den), num)
  /\ WLt(num, WAdd(WMul(q, den), Ext(den, 4)))

\* The answer of the reference predictor to a count of `ones` ones in a
\* context of K bits, both uint32_t, is what the formula gives.
AnswersFormula(ones, K) ==
  LET r == example_get_probability_fixed(ones, K)
      den == WAdd(K, <<2, 0>>)
      num == WAdd(WMul(WAdd(ones, W1), WFixedScale), Ext(WShr(den, 1), 4))
  IN /\ InScale(r)
     /\ IsZero(K) => r = U32(FIXED_SCALE \div 2)
     /\ ~IsZero(K) =>
          \E q \in {Rounded(WAdd(ones, W1), den)} :
            IsFloor(q, num, den) /\ r = MinMax(q)
     /\ WLt(ones, K) =>
          WLe(r, example_get_probability_fixed(WAdd(ones, W1), K))

\* The same for a small K, in integers.
AnswersSmall(ones, K) ==
  LET q == ((ones + 1) * FIXED_SCALE + ((K + 2) \div 2)) \div (K + 2)
  IN ToInt(example_get_probability_fixed(U32(ones), U32(K))) =
       IF K = 0 THEN FIXED_SCALE \div 2
       ELSE IF q < 1 THEN 1
       ELSE IF q > FIXED_SCALE - 1 THEN FIXED_SCALE - 1 ELSE q

\* C23 -- Reference predictor: example_get_probability_fixed returns S/2
\* for K = 0, and for K >= 1 and 0 <= ones <= K the value
\* floor(((ones+1)*S + floor((K+2)/2)) / (K+2)) clamped to [1, S-1]; the
\* result lies in [1, S-1], depends on (ones, K) only and does not
\* decrease as ones grows.
ReferencePredictor ==
  /\ pc = "predict" =>
       /\ AnswersFormula(Query(enc)[1], Query(enc)[2])
       /\ context_length <= MaxPredK =>
            AnswersSmall(ToInt(Query(enc)[1]), context_length)
  /\ pc = "predicted" =>
       /\ InScale(p1_fixed)
       /\ p1_fixed = example_get_probability_fixed(
                       Trunc(enc.count_ones, 2), U32(context_length))

\* The predictor has answered S - 1 where the rounded quotient is S: a
\* context of 2S - 2 bits, all of them ones.
ReferencePredictorReached ==
  /\ pc = "predicted" /\ context_length = 2 * FIXED_SCALE - 2
  /\ ToInt(enc.count_ones) = context_length
  /\ enc.context_index = 1
  /\ p1_fixed = WSub(WFixedScale, W1)

\* ------------------------------------------------------------------------
\* malloc and realloc returning NULL
\* ------------------------------------------------------------------------

\* An encode that has filled all but two bytes of its first buffer: under
\* the constant predictor "high" and without context a 0 costs sixteen 0
\* bits and brings the interval back to the whole range, so after
\* FullBits zeros the coder is the initial one with FullBytes zero bytes.
MaxTail == 3
FullBytes == INITIAL_OUTPUT_CAPACITY - 2
FullBits == FullBytes \div 2

\* The input of such a call: FullBits zeros, then the bits of tail.
TailInput(tail) ==
  [k \in 1..((FullBits + Len(tail) + 7) \div 8) |->
     LET b(j) == IF 8 * (k - 1) + j >= FullBits /\
                    8 * (k - 1) + j < FullBits + Len(tail)
                 THEN tail[8 * (k - 1) + j - FullBits + 1] ELSE 0
     IN 128 * b(0) + 64 * b(1) + 32 * b(2) + 16 * b(3) +
        8 * b(4) + 4 * b(5) + 2 * b(6) + b(7)]

InitFull ==
  /\ pc = "enc"
  /\ py = NoPy /\ inst = <<>> /\ calls = 0
  /\ tally = [NoTally EXCEPT !.encode_rescales = 8 * FullBytes]
  /\ build = 4 /\ pf = "high"
  /\ context_length = 0
  /\ \E m \in 0..MaxTail : \E tail \in [1..m -> {0, 1}] :
       /\ length = FullBits + m
       /\ sequence = TailInput(tail)
  /\ enc = [InitCoder(build, INITIAL_OUTPUT_CAPACITY, 0) EXCEPT
              !.output = [k \in 1..FullBytes |-> 0],
              !.output_size = FullBytes]
  /\ enc_i = FullBits
  /\ encoded = <<>> /\ encoded_length = 0
  /\ decoded = <<>> /\ decoded0 = <<>>
  /\ dec = ZeroCoder(build) /\ dec_i = 0 /\ bit_index = 0 /\ prime_i = 0
  /\ p1_fixed = <<0, 0>> /\ scaled_p0 = <<0, 0>> /\ scaled_value = <<0, 0>>
  /\ enc_queries = <<>> /\ dec_queries = <<>> /\ enc_hist = <<>>

\* The bits of a step going into the coder up to the store that finds the
\* buffer full: there ensure_output_capacity calls realloc.
RECURSIVE UntilRealloc(_, _)
UntilRealloc(coder, bits) ==
  IF bits = <<>> THEN coder
  ELSE IF ShiftIn(coder, Head(bits)).bit_count < 8
       THEN UntilRealloc(ShiftIn(coder, Head(bits)), Tail(bits))
       ELSE IF coder.output_size + 1 > coder.output_capacity
            THEN ShiftIn(coder, Head(bits))
            ELSE UntilRealloc(PushByte(ShiftIn(coder, Head(bits))), Tail(bits))

\* The coder as the refused realloc finds it: flush_output has shifted the
\* accumulator up before it asks for room.
AtExit ==
  IF pc = "enc" /\ UntilRealloc(enc, Emits).bit_count < 8
  THEN [UntilRealloc(enc, Emits) EXCEPT
          !.bit_buffer = (UntilRealloc(enc, Emits).bit_buffer *
                          2^(8 - UntilRealloc(enc, Emits).bit_count)) % 256]
  ELSE UntilRealloc(enc, Emits)

\* The coder the step in hand leaves when every allocation succeeds.
StepResult ==
  CASE pc = "enc_renorm" /\ Rule(enc) \in {"low", "high"} ->
         EncodeRescale(enc, Rule(enc))
    [] pc = "enc" /\ enc_i = length ->
         flush_output(FinalBits(
           [enc EXCEPT !.bits_to_follow = enc.bits_to_follow + 1]))
    [] OTHER -> enc

\* The step in hand calls realloc.
Reallocates == StepResult.output_capacity # enc.output_capacity

\* realloc returns NULL and the process returns to its caller all the
\* same, with what the buffer holds: the variant that tells whether a
\* property depends on the exit.
ReallocFails_returns ==
  /\ pc \in EncStates /\ Reallocates
  /\ enc' = AtExit
  /\ pc' = "encoded"
  /\ UNCHANGED <<callVars, decVars, enc_i, loopVars, enc_queries, enc_hist>>

\* malloc(INITIAL_OUTPUT_CAPACITY) returns NULL: perror and exit.
MallocFails ==
  /\ pc = "start"
  /\ enc' = [ZeroCoder(build) EXCEPT !.high = WSub(TOTAL_FREQUENCY, W1)]
  /\ pc' = "exit"
  /\ UNCHANGED <<callVars, decVars, enc_i, loopVars, enc_queries, enc_hist>>

\* realloc returns NULL in ensure_output_capacity: perror and exit, at the
\* store that needed the room.
ReallocFails ==
  /\ pc \in EncStates /\ Reallocates
  /\ enc' = AtExit
  /\ pc' = "exit"
  /\ UNCHANGED <<callVars, decVars, enc_i, loopVars, enc_queries, enc_hist>>

InitAlloc == InitWith(Conforming, {0, 1}, {4}, {0}) \/ InitFull

NextAlloc ==
  \/ EncodeInit \/ EncodeBit
  \/ EncodeRescaleLow \/ EncodeRescaleHigh \/ EncodeRescaleMid
  \/ EncodeUpdate \/ EncodeFlush
  \/ MallocFails \/ ReallocFails

SpecAlloc == InitAlloc /\ [][NextAlloc]_vars

\* A step that leaves the call: the return after the flush with every
\* allocation granted, or the exit.  Nothing follows the exit.
LeavesWhole ==
  /\ pc # "exit"
  /\ pc' = "encoded" =>
       /\ pc = "enc" /\ enc_i = length
       /\ enc' = StepResult
       /\ enc'.bit_count = 0
       /\ enc'.output_size <= enc'.output_capacity
  /\ (pc = "start" /\ pc' = "exit") => enc'.output = <<>>
  /\ (pc \in EncStates /\ pc' = "exit") =>
       /\ enc'.output_size >= enc.output_size
       /\ SubSeq(enc'.output, 1, enc.output_size) = enc.output
       /\ enc'.output = SubSeq(StepResult.output, 1, enc'.output_size)
       /\ enc'.output_size < StepResult.output_size

\* C24 -- Allocation failure is fatal: when the first allocation or a
\* growth of the output buffer fails, the encode call is aborted there,
\* emits no further bit and never returns a partial output to its caller.
AllocationFailureFatal ==
  /\ [](pc = "exit" =>
         /\ encoded = <<>> /\ py.result = <<>>
         /\ enc.output_capacity = 0 \/ enc.output_size = enc.output_capacity)
  /\ [][LeavesWhole]_vars

\* The growth of a full first buffer has been refused.
AllocationFailureFatalReached ==
  /\ pc = "exit" /\ enc.output_size = INITIAL_OUTPUT_CAPACITY
  /\ enc.bit_count = 8

\* a's interval is b's doubled: the new width high - low is twice the old
\* one plus one, inside [0, 2^P).
Doubled(a, b) ==
  /\ WSub(a.high, a.low) = WAdd(WShl1(WSub(b.high, b.low), 0), W1)
  /\ WLe(a.low, a.high) /\ WLt(a.high, TOTAL_FREQUENCY)

\* A pass of either renormalization loop that does not break doubles the
\* interval.
RescaleStep ==
  /\ (pc = "enc_renorm" /\ Rule(enc) # "none") => Doubled(enc', enc)
  /\ (pc = "dec_renorm" /\ Rule(dec) # "none") => Doubled(dec', dec)

\* C25 -- Rescaling step: every rescaling step of the renormalization loop,
\* in the encoder and in the decoder and for each of the three rules, maps
\* (low, high) to (low', high') with high' - low' = 2 * (high - low) + 1
\* and 0 <= low' <= high' < 2^P.
RescalingDoubles == [][RescaleStep]_vars

\* The encoder has rescaled by the middle rule and is about to rescale by
\* another one.
RescalingDoublesReached ==
  /\ pc = "enc_renorm" /\ enc.bits_to_follow > 0
  /\ Rule(enc) \in {"low", "high"}

\* ------------------------------------------------------------------------
\* The renormalization loop entered with any interval
\* ------------------------------------------------------------------------

\* The ends of the intervals: within MaxGap of 0, QUARTER, HALF,
\* THREE_QUARTER and 2^PRECISION - 1.
MaxGap == 1
Ends ==
  { q * 2^(PRECISION - 2) + d : q \in 0..3, d \in 0..MaxGap }
  \cup { q * 2^(PRECISION - 2) - d : q \in 1..3, d \in 1..MaxGap }
  \cup { 2^(PRECISION - 1) + (2^(PRECISION - 1) - 1 - d) : d \in 0..MaxGap }

\* A coder of the call of one bit without context, in the renormalization
\* loop with the interval [lo, hi].
LoopCoder(lo, hi) ==
  [InitCoder(4, INITIAL_OUTPUT_CAPACITY, 0) EXCEPT !.low = U32(lo),
                                                    !.high = U32(hi)]

\* Either function is at the top of its renormalization loop with an
\* interval 0 <= low <= high < 2^PRECISION; the decoder's value is an end of
\* it and its stream is at its end.
InitInterval ==
  /\ pc \in {"enc_renorm", "dec_renorm"}
  /\ py = NoPy /\ inst = <<>> /\ calls = 0 /\ tally = NoTally
  /\ build = 4 /\ pf = "example"
  /\ context_length = 0 /\ length = 1
  /\ sequence = <<0>>
  /\ \E lo \in Ends, hi \in Ends :
       /\ lo <= hi
       /\ IF pc = "enc_renorm"
          THEN /\ enc = LoopCoder(lo, hi)
               /\ dec = ZeroCoder(build)
               /\ decoded = <<>> /\ decoded0 = <<>>
          ELSE /\ enc = ZeroCoder(build)
               /\ \E v \in {lo, hi} :
                    dec = [LoopCoder(lo, hi) EXCEPT !.output_capacity = 0,
                                                    !.value = U32(v)]
               /\ decoded = <<0>> /\ decoded0 = <<0>>
  /\ enc_i = 0
  /\ encoded = <<>> /\ encoded_length = 0
  /\ dec_i = 0 /\ bit_index = 0 /\ prime_i = PRECISION
  /\ p1_fixed = <<0, 0>> /\ scaled_p0 = <<0, 0>> /\ scaled_value = <<0, 0>>
  /\ enc_queries = <<>> /\ dec_queries = <<>> /\ enc_hist = <<>>

\* The calls of the reference predictor with a context of one bit, and the
\* loops entered with any interval.
InitLoop == InitWith({"example"}, {1}, {4}, {0}) \/ InitInterval

SpecLoop == InitLoop /\ [][Next]_vars

\* An upper bound on the steps arithmetic_encode still has to make.
EncStepsLeft ==
  CASE pc = "start"      -> length * PerBit + 2
    [] pc = "enc"        -> (length - enc_i) * PerBit + 1
    [] pc = "enc_renorm" -> (length - enc_i) * PerBit - (PRECISION + 2) + Room(Range(enc))
    [] OTHER             -> 0

\* A pass of either loop that does not break leaves one pass less to make;
\* the break leaves the loop; every step of either function lowers the
\* bound on the steps it has left.
LoopStep ==
  /\ (pc = "enc_renorm" /\ Rule(enc) # "none") =>
       pc' = "enc_renorm" /\ Room(Range(enc')) = Room(Range(enc)) - 1
  /\ (pc = "enc_renorm" /\ Rule(enc) = "none") => pc' = "enc"
  /\ (pc = "dec_renorm" /\ Rule(dec) # "none") =>
       pc' = "dec_renorm" /\ Room(Range(dec')) = Room(Range(dec)) - 1
  /\ (pc = "dec_renorm" /\ Rule(dec) = "none") => pc' = "dec"
  /\ pc \in {"start"} \cup EncStates => EncStepsLeft' < EncStepsLeft
  /\ pc \in Decoding => StepsLeft' < StepsLeft

\* C26 -- The renormalization loop terminates: entered with any interval
\* 0 <= low <= high < 2^P, the loop of the encoder and of the decoder
\* breaks after at most P rescaling steps, so encoding and decoding of N
\* bits terminate.
LoopTerminates ==
  /\ [](/\ pc = "enc_renorm" =>
             /\ Room(Range(enc)) <= PRECISION
             /\ Rule(enc) # "none" => Room(Range(enc)) >= 1
        /\ pc = "dec_renorm" =>
             /\ Room(Range(dec)) <= PRECISION
             /\ Rule(dec) # "none" => Room(Range(dec)) >= 1)
  /\ [][LoopStep]_vars

\* The loop entered with low = high has broken after PRECISION passes.
LoopTerminatesReached ==
  /\ pc = "enc_renorm" /\ enc_i = 0 /\ Rule(enc) = "none"
  /\ 8 * enc.output_size + enc.bit_count + enc.bits_to_follow = PRECISION

\* The interval straddles HALF, does not lie within the middle half, and
\* is wider than QUARTER.
RenormalizedForm(coder) ==
  /\ WLt(coder.low, HALF) /\ WLe(HALF, coder.high)
  /\ ~(WLe(QUARTER, coder.low) /\ WLt(coder.high, THREE_QUARTER))
  /\ WLt(QUARTER, Range(coder))

\* C27 -- Renormalized form: at the start of every per-bit step, so
\* whenever the renormalization loop has exited and before every predictor
\* query of the encoder and of the decoder, low < HALF <= high and not
\* (low >= QUARTER and high < THREE_QUARTER), hence high - low + 1 > QUARTER.
Renormalized ==
  /\ pc = "enc" => RenormalizedForm(enc)
  /\ pc = "dec" => RenormalizedForm(dec)

\* The decoder is about to query for a later bit, its loop having exited
\* with low at or above QUARTER.
RenormalizedReached ==
  /\ pc = "dec" /\ dec_i >= 1 /\ dec_i < length
  /\ WLe(QUARTER, dec.low)

\* n copies of a bit.
Run(bit, n) == [j \in 1..n |-> bit]

\* What each step of arithmetic_encode before the final bits does to the
\* bits written and to bits_to_follow.
PendingStep ==
  /\ (pc = "enc_renorm" /\ WLt(enc.high, HALF)) =>
       /\ Written(enc') = (Written(enc) \o <<0>>) \o Run(1, enc.bits_to_follow)
       /\ enc'.bits_to_follow = 0
  /\ (pc = "enc_renorm" /\ WLe(HALF, enc.low)) =>
       /\ Written(enc') = (Written(enc) \o <<1>>) \o Run(0, enc.bits_to_follow)
       /\ enc'.bits_to_follow = 0
  /\ (/\ pc = "enc_renorm" /\ WLt(enc.low, HALF) /\ WLe(HALF, enc.high)
      /\ WLe(QUARTER, enc.low) /\ WLt(enc.high, THREE_QUARTER)) =>
       /\ Written(enc') = Written(enc)
       /\ enc'.bits_to_follow = enc.bits_to_follow + 1
  /\ (pc = "enc_renorm" /\ RenormalizedForm(enc)) =>
       /\ Written(enc') = Written(enc)
       /\ enc'.bits_to_follow = enc.bits_to_follow
  /\ (pc = "enc" /\ enc_i < length) =>
       /\ Written(enc') = Written(enc)
       /\ enc'.bits_to_follow = enc.bits_to_follow
  /\ pc = "start" =>
       /\ Written(enc') = <<>>
       /\ enc'.bits_to_follow = 0

\* C28 -- Pending-bit resolution in the encoder: the lower-half rule emits
\* one 0 followed by exactly `pending` 1s, the upper-half rule one 1
\* followed by exactly `pending` 0s, both leave pending = 0; the middle
\* rule emits nothing and adds exactly 1 to pending; no other step before
\* the final flush emits a bit.
PendingBits == [][PendingStep]_vars

\* The loop has written a bit and two opposite bits after it, and nothing
\* is pending.
PendingBitsReached ==
  /\ pc = "enc_renorm" /\ enc.bits_to_follow = 0
  /\ Len(Written(enc)) >= 3
  /\ \E b \in {0, 1} :
       SubSeq(Written(enc), Len(Written(enc)) - 2, Len(Written(enc)))
         = <<b, 1 - b, 1 - b>>

\* The bits a coder has emitted or deferred.
Deferred(coder) == Len(Written(coder)) + coder.bits_to_follow

\* A call of arithmetic_encode run up to the top of its loop for bit i.
RECURSIVE EncodeUpTo(_, _)
EncodeUpTo(c, i) ==
  IF (c.pc = "enc" /\ c.i = i) \/ c.pc \in {"encoded", "ub"} THEN c
  ELSE EncodeUpTo(encode_step(c), i)

\* C29 -- Bit accounting between the two sides: at every point of
\* arithmetic_encode before the final flush, the bits emitted so far plus
\* pending equal the rescaling steps performed so far; in arithmetic_decode
\* the calls of read_bit equal P + the rescaling steps performed; so when
\* the decoder decodes the encoder's output, after each bit it has made P
\* more reads than the encoder had emitted or deferred bits after that bit.
BitAccounting ==
  /\ pc \in EncStates => Deferred(enc) = tally.encode_rescales
  /\ pc = "dec_prime" =>
       tally.read_bit_calls = prime_i /\ tally.decode_rescales = 0
  /\ pc \in {"dec", "dec_narrow", "dec_renorm", "done"} =>
       tally.read_bit_calls = PRECISION + tally.decode_rescales
  /\ (pc = "dec" /\ encoded = enc.output) =>
       tally.read_bit_calls =
         PRECISION + Deferred(EncodeUpTo(EncodeCallOf(build, sequence, length,
                                                      context_length, pf),
                                         dec_i).coder)

\* The decoder is through the last bit of the encoder's output, having
\* rescaled and having read past the end of the stream.
BitAccountingReached ==
  /\ pc = "dec" /\ dec_i = length /\ length >= 2
  /\ encoded = enc.output
  /\ tally.decode_rescales >= 2
  /\ tally.read_bit_calls > bit_index

\* The bits of a byte string up to bit m.
Leading(bytes, m) == SubSeq(OutputBits(bytes), 1, m)

\* The step from the last pass of the loop to the return of encode: the
\* bits written so far, then 0 and pending + 1 1s if low < QUARTER, else 1
\* and pending + 1 0s; two bits more than the loop rescaled.
FlushStep ==
  (pc = "enc" /\ pc' = "encoded") =>
    LET pending == enc.bits_to_follow + 1
        first   == IF WLt(enc.low, QUARTER) THEN 0 ELSE 1
        m       == Len(Written(enc)) + 1 + pending
    IN /\ enc_i = length
       /\ pending >= 1
       /\ m = tally.encode_rescales + 2
       /\ enc'.output_size = (m + 7) \div 8
       /\ Leading(enc'.output, m) =
            (Written(enc) \o <<first>>) \o Run(1 - first, pending)
       /\ \A k \in (m + 1)..(8 * enc'.output_size) :
            OutputBits(enc'.output)[k] = 0
       /\ enc'.low = enc.low /\ enc'.high = enc.high

\* C30 -- Final flush: after the last input bit the encoder increments
\* pending once and emits 0 followed by `pending` 1s if low < QUARTER,
\* otherwise 1 followed by `pending` 0s; it emits at least 2 bits, the
\* emitted bits are the rescaling steps + 2 in number, and the emitted bit
\* string extended with zeros denotes a value inside the final interval
\* [low, high]: it is the value the decoder holds after the last bit.
FinalFlush ==
  /\ []((pc = "dec" /\ dec_i = length /\ encoded = enc.output) =>
          /\ dec.low = enc.low /\ dec.high = enc.high
          /\ WLe(enc.low, dec.value) /\ WLe(dec.value, enc.high)
          /\ dec.value = IF WLt(enc.low, QUARTER) THEN QUARTER ELSE HALF)
  /\ [][FlushStep]_vars

\* The decoder is through the last bit of an output whose final bits were
\* 1 and several 0s.
FinalFlushReached ==
  /\ pc = "dec" /\ dec_i = length /\ length >= 1
  /\ encoded = enc.output
  /\ WLe(QUARTER, enc.low)
  /\ tally.decode_rescales >= 1

\* ------------------------------------------------------------------------
\* The decoder's decision for any interval, value and scaled_p0
\* ------------------------------------------------------------------------

\* The cut point of the encoder: low + range * scaled_p0 / TOTAL_FREQUENCY.
Cut(coder, sp0) == Trunc(WAdd(Ext(coder.low, 4), Share(coder, sp0)), 2)

\* The values of scaled_p0: 0, 1, the least one a conforming predictor
\* gives, QUARTER, HALF and 2^PRECISION - 1.
Splits ==
  {<<0, 0>>, W1, ScaledP0(WSub(WFixedScale, W1)), QUARTER, HALF,
   WSub(TOTAL_FREQUENCY, W1)}

\* The values the decision is made for: the ends of the interval and the
\* two sides of the cut.
ValuesAround(coder, sp0) ==
  {v \in {coder.low, coder.high, Cut(coder, sp0), WSub(Cut(coder, sp0), W1)} :
     WLe(coder.low, v) /\ WLe(v, coder.high)}

\* arithmetic_decode is about to decide bit 0 of a call of one bit without
\* context, with an interval 0 <= low <= value <= high < 2^PRECISION and a
\* scaled_p0 in hand.
InitDecision ==
  /\ pc = "dec_decide"
  /\ py = NoPy /\ inst = <<>> /\ calls = 0 /\ tally = NoTally
  /\ build = 4 /\ pf = "example"
  /\ context_length = 0 /\ length = 1
  /\ sequence = <<0>>
  /\ enc = ZeroCoder(build) /\ enc_i = 0
  /\ scaled_p0 \in Splits
  /\ \E lo \in Ends, hi \in Ends :
       /\ lo <= hi
       /\ \E v \in ValuesAround(LoopCoder(lo, hi), scaled_p0) :
            dec = [LoopCoder(lo, hi) EXCEPT !.output_capacity = 0, !.value = v]
  /\ decoded = <<0>> /\ decoded0 = <<0>>
  /\ encoded = <<>> /\ encoded_length = 0
  /\ dec_i = 0 /\ bit_index = 0 /\ prime_i = PRECISION
  /\ p1_fixed = <<0, 0>> /\ scaled_value = <<0, 0>>
  /\ enc_queries = <<>> /\ dec_queries = <<>> /\ enc_hist = <<>>

\* The decision of the loop body with the scaled_p0 in hand: scaled_value,
\* the bit, and the write into decoded.
DecideWith ==
  /\ pc = "dec_decide"
  /\ scaled_value' = ScaledValue(dec)
  /\ decoded' = BufWrite(decoded, dec_i, DecodedBit(scaled_value', scaled_p0))
  /\ pc' = "dec_narrow"
  /\ UNCHANGED <<callVars, encVars, encoded, encoded_length, dec, dec_i,
                 bit_index, prime_i, p1_fixed, scaled_p0, dec_queries,
                 decoded0>>

NextDecision ==
  \/ DecideWith \/ DecodeNarrow
  \/ DecodeRescaleLow \/ DecodeRescaleHigh \/ DecodeRescaleMid
  \/ DecodeNext \/ DecodeReturn

SpecDecision == InitDecision /\ [][NextDecision]_vars

\* The narrowing leaves value inside the half the decision chose.
NarrowKeeps ==
  pc = "dec_narrow" =>
    /\ WLe(dec'.low, dec'.value) /\ WLe(dec'.value, dec'.high)
    /\ BufBit(decoded, dec_i) = 0 =>
         dec'.low = dec.low /\ dec'.high = WSub(Cut(dec, scaled_p0), W1)
    /\ BufBit(decoded, dec_i) = 1 =>
         dec'.low = Cut(dec, scaled_p0) /\ dec'.high = dec.high

\* C31 -- Decoder decision matches the encoder's split: for every
\* low <= value <= high < 2^P and every scaled_p0 in [0, 2^P - 1], the
\* decoder's test scaled_value < scaled_p0 holds if and only if
\* value < cut = low + floor(range * scaled_p0 / 2^P), so the decoder
\* outputs 0 exactly when value is in [low, cut - 1] and 1 exactly when it
\* is in [cut, high].
DecisionMatchesSplit ==
  /\ [](pc = "dec_narrow" =>
         /\ WLt(scaled_value, scaled_p0) <=> WLt(dec.value, Cut(dec, scaled_p0))
         /\ BufBit(decoded, dec_i) = 0 <=> WLt(dec.value, Cut(dec, scaled_p0)))
  /\ [][NarrowKeeps]_vars

\* The decoder has decided 0 for the value just below a cut strictly
\* inside an interval that is not the whole range.
DecisionMatchesSplitReached ==
  /\ pc = "dec_narrow" /\ BufBit(decoded, dec_i) = 0
  /\ dec.value = WSub(Cut(dec, scaled_p0), W1)
  /\ WLt(dec.low, dec.value) /\ ~IsZero(dec.low)

\* The bits in the context when bit i is coded with a ring of K bits: the
\* min(i, K) bits before it.
Window(i, K) == (IF i > K THEN i - K ELSE 0)..(i - 1)

\* The ring position context_index had when bit j was written: byte and
\* bit within the byte.
RingPos(j, K) == <<(j % K) \div 8, 7 - ((j % K) % 8)>>

\* The query for bit i is made of the bits of Window(i, K) in buf: their
\* number of 1s is what the predictor receives, and the ring holds them at
\* their positions and 0 everywhere else.
ContextIs(coder, buf, i, K) ==
  /\ Query(coder)[1] = U32(Cardinality({j \in Window(i, K) : BufBit(buf, j) = 1}))
  /\ Query(coder)[2] = U32(K)
  /\ coder.context_buffer =
       {RingPos(j, K) : j \in {n \in Window(i, K) : BufBit(buf, n) = 1}}

\* C32 -- Context contents: when the predictor is queried for bit i with
\* K >= 1, the count_ones it receives is the number of 1s among the
\* min(i, K) most recently coded bits, and the ring holds exactly those bits
\* with every position not yet written equal to 0; bit i itself is not yet
\* in the context.
ContextContents ==
  /\ (pc = "enc" /\ enc_i < length /\ context_length >= 1) =>
       ContextIs(enc, sequence, enc_i, context_length)
  /\ (pc = "dec" /\ dec_i < length /\ context_length >= 1) =>
       ContextIs(dec, decoded, dec_i, context_length)

\* The decoder on the 64-bit build is about to query with a context whose
\* last 1 has left the ring; the stored field is no longer the count.
ContextContentsReached ==
  /\ pc = "dec" /\ dec_i < length /\ context_length >= 1 /\ build = 4
  /\ dec_i > context_length
  /\ dec.context_buffer = {}
  /\ dec.count_ones # Ext(Query(dec)[1], build)

\* The calls of up to MaxWidthN bits with a context of MaxK bits, and the
\* decodes of streams cut short, empty or with a bit turned over.
MaxWidthN == 3
InitWidth == InitWith(Conforming, {MaxK}, {4}, {0}) /\ length <= MaxWidthN

SpecWidth == InitWidth /\ [][NextChannel]_vars

\* A uint64_t below 2^63.
Fits63(w) == w[4] < Base \div 2

\* The products of the query made of a coder: p0 = S - p1 does not go below
\* zero, p0 * 2^P and range * scaled_p0 stay within 64 bits, the cast of
\* scaled_p0 to uint32_t drops nothing, and the share of bit 0 is at least
\* 1, so that cut - 1 does not go below low.
ProductsFit(coder) ==
  LET p1   == get_probability(pf, Query(coder)[1], Query(coder)[2])
      p0   == WSub(WFixedScale, p1)
      wide == WShr(WMul(p0, TOTAL_FREQUENCY), 16)
      sp0  == ScaledP0(p1)
  IN /\ WLe(p1, WFixedScale)
     /\ Fits63(WMul(p0, TOTAL_FREQUENCY))
     /\ wide = Ext(sp0, 4)
     /\ WLt(sp0, TOTAL_FREQUENCY)
     /\ Fits63(WMul(Range(coder), sp0))
     /\ ~IsZero(Share(coder, sp0))
     /\ WLt(Ext(coder.low, 4), WAdd(Ext(coder.low, 4), Share(coder, sp0)))

\* scaled_value of a decoder: value - low + 1 is in [1, 2^P], the product
\* with 2^P stays within 64 bits and is at least 1, and the cast of the
\* quotient to uint32_t drops nothing.
ScaledValueFits(coder) ==
  LET d1   == WAdd(WSub(coder.value, coder.low), W1)
      prod == WMul(d1, TOTAL_FREQUENCY)
      wide == WDiv(WSub(prod, Ext(W1, 4)), Range(coder))
  IN /\ ~IsZero(d1) /\ WLe(d1, TOTAL_FREQUENCY)
     /\ Fits63(prod) /\ ~IsZero(prod)
     /\ wide = Ext(ScaledValue(coder), 4)
     /\ WLt(ScaledValue(coder), TOTAL_FREQUENCY)

\* C33 -- Fixed-width arithmetic never wraps: in encode and decode with
\* P = 31, S = 2^16 and p1 in [1, S-1], low, high and value stay below 2^31,
\* range is in [1, 2^31], no unsigned subtraction (cut - 1, value - low,
\* low - HALF, low - QUARTER, value - HALF, value - QUARTER) goes below
\* zero, scaled_value is below 2^31 and every 64-bit intermediate is below
\* 2^64.
FixedWidth ==
  /\ pc \in EncStates => Ordered(enc) /\ ~IsZero(Range(enc))
  /\ pc \in DecStates \cup {"dec_prime"} =>
       /\ Ordered(dec) /\ ~IsZero(Range(dec))
       /\ WLe(dec.low, dec.value) /\ WLe(dec.value, dec.high)
  /\ (pc = "enc_renorm" /\ Rule(enc) \in {"high", "mid"}) =>
       WLe(Offset(Rule(enc)), enc.low)
  /\ (pc = "dec_renorm" /\ Rule(dec) \in {"high", "mid"}) =>
       WLe(Offset(Rule(dec)), dec.low) /\ WLe(Offset(Rule(dec)), dec.value)
  /\ (pc = "enc" /\ enc_i < length) => ProductsFit(enc)
  /\ (pc = "dec" /\ dec_i < length) => ProductsFit(dec) /\ ScaledValueFits(dec)

\* The decoder of a stream that is not the encoder's output is about to
\* take QUARTER off low, high and value after the first bit.
FixedWidthReached ==
  /\ pc = "dec_renorm" /\ Rule(dec) = "mid" /\ dec_i >= 1
  /\ encoded # enc.output

\* ------------------------------------------------------------------------
\* Growth of the output buffer
\* ------------------------------------------------------------------------

\* The rounding of ensure_output_capacity as the code does it, for a
\* required size below 2^32: new_capacity--, the five shifts and ors (the
\* sixth, by 32, adds nothing below 2^32), new_capacity++.
RoundUpPow2(required) ==
  LET n0 == WSub(U32(required), W1)
      n1 == WOr(n0, WShr(n0, 1))
      n2 == WOr(n1, WShr(n1, 2))
      n3 == WOr(n2, WShr(n2, 4))
      n4 == WOr(n3, WShr(n3, 8))
      n5 == WOr(n4, WShr(n4, 16))
  IN ToInt(WAdd(n5, W1))

\* ensure_output_capacity of the compression variant: twice the capacity,
\* or the bytes required if that is more.
ensure_output_capacity_doubling(coder, additional) ==
  IF coder.output_size + additional > coder.output_capacity
  THEN [coder EXCEPT !.output_capacity =
          IF 2 * coder.output_capacity < coder.output_size + additional
          THEN coder.output_size + additional
          ELSE 2 * coder.output_capacity]
  ELSE coder

\* A step of the encoder keeps what was written, does not lower the
\* capacity, and grows a full buffer to a power of two twice as large.
GrowthStep ==
  (pc \in EncStates /\ pc' \in EncStates \cup {"encoded", "exit"}) =>
    /\ enc'.output_capacity >= enc.output_capacity
    /\ enc'.output_size >= enc.output_size
    /\ SubSeq(enc'.output, 1, enc.output_size) = enc.output
    /\ enc'.output_capacity # enc.output_capacity =>
         /\ enc'.output_size > enc.output_capacity
         /\ enc'.output_capacity >= 2 * enc.output_capacity
         /\ enc'.output_capacity = RoundUpPow2(enc.output_capacity + 1)

\* C34 -- Output buffer growth: after every operation of the encoder
\* output_size <= output_capacity, a byte is only written at an index
\* output_size < output_capacity, the capacity never decreases, the bytes
\* written are preserved across growth, and a full buffer grows to at
\* least double its capacity (in the glorious variant always a power of
\* two >= 4096).
OutputGrowth ==
  /\ [](pc \in EncStates \cup {"encoded", "exit"} =>
         /\ Len(enc.output) = enc.output_size
         /\ enc.output_size <= enc.output_capacity
         /\ enc.output_capacity > 0 =>
              /\ enc.output_capacity >= INITIAL_OUTPUT_CAPACITY
              /\ enc.output_capacity = RoundUpPow2(enc.output_capacity)
         /\ enc.output_size = enc.output_capacity =>
              /\ ensure_output_capacity(enc, 1).output_capacity
                   >= 2 * enc.output_capacity
              /\ ensure_output_capacity_doubling(enc, 1).output_capacity
                   >= 2 * enc.output_capacity
              /\ PushByte(enc).output_size
                   <= ensure_output_capacity(enc, 1).output_capacity)
  /\ [][GrowthStep]_vars

\* The encoder has grown its buffer and written past the first capacity.
OutputGrowthReached ==
  /\ pc \in EncStates
  /\ enc.output_capacity = 2 * INITIAL_OUTPUT_CAPACITY
  /\ enc.output_size > INITIAL_OUTPUT_CAPACITY

\* ---------------------------------------------------------------------
\* The result of a completed encode, as its callers test it
\* ---------------------------------------------------------------------

\* The test both callers make on the returned pair: py_arithmetic_encode
\* and test_arithmetic_coding take their "Encoding failed" branch when
\* encoded_length == 0 or encoded_output == NULL.  *encoded_output is
\* coder.output, which is non-null exactly when its allocation stands.
EncodingFailed(coder) ==
  coder.output_size = 0 \/ coder.output_capacity = 0

\* C35 -- A completed encode never returns an empty result: for every
\* input, every N >= 0 and every K, arithmetic_encode returns a byte count
\* of at least 1 and an allocated buffer holding that many bytes, so the
\* "Encoding failed" branch of the binding (and the same test in
\* test_arithmetic_coding) is never taken after a completed encode.
EncodedNeverEmpty ==
  /\ pc = "encoded" =>
       /\ enc.output_size >= 1
       /\ enc.output_capacity >= enc.output_size
       /\ Len(enc.output) = enc.output_size
       /\ ~EncodingFailed(enc)
  /\ (pc = "py_done" /\ py.fn = "encode") =>
       /\ py.error = "none"
       /\ Len(py.result) >= 1

EncodedNeverEmptyReached ==
  /\ pc = "py_done" /\ py.fn = "encode"
  /\ py.sequence_bit_length = 0
  /\ py.result = <<64>>


\* ---------------------------------------------------------------------
\* The coder of compression/c: the context unpacked and rescanned
\* ---------------------------------------------------------------------

\* The byte store of compression/c, its capacity doubled when full.
naive_PushByte(coder) ==
  LET c == ensure_output_capacity_doubling(coder, 1)
  IN [c EXCEPT !.output = Append(c.output, c.bit_buffer),
               !.output_size = c.output_size + 1,
               !.bit_buffer = 0,
               !.bit_count = 0]

\* output_bit of compression/c.
naive_output_bit(coder, bit) ==
  LET c == ShiftIn(coder, bit)
  IN IF c.bit_count = 8 THEN naive_PushByte(c) ELSE c

\* output_following_bits of compression/c: one output_bit for each pending
\* bit, the count taken down by one after each.
RECURSIVE naive_output_following_bits(_, _)
naive_output_following_bits(coder, bit) ==
  IF coder.bits_to_follow > 0
  THEN naive_output_following_bits(
         [naive_output_bit(coder, bit) EXCEPT
            !.bits_to_follow = coder.bits_to_follow - 1], bit)
  ELSE coder

\* flush_output of compression/c.
naive_flush_output(coder) ==
  IF coder.bit_count > 0
  THEN naive_PushByte([coder EXCEPT !.bit_buffer =
                         (coder.bit_buffer * 2^(8 - coder.bit_count)) % 256])
  ELSE coder

\* update_context_ring_buffer of compression/c: the bit is set or cleared
\* and the index moves on; this coder keeps no count of ones.
naive_update_context_ring_buffer(coder, new_bit) ==
  IF coder.context_capacity = 0 THEN coder
  ELSE LET byte_pos == coder.context_index \div 8
           bit_pos  == 7 - (coder.context_index % 8)
       IN [coder EXCEPT
             !.context_buffer =
                IF new_bit # 0
                THEN coder.context_buffer \cup {<<byte_pos, bit_pos>>}
                ELSE coder.context_buffer \ {<<byte_pos, bit_pos>>},
             !.context_index =
                (coder.context_index + 1) % coder.context_capacity]

\* The loop of get_current_context_buffer from bit i on: bit i of buffer is
\* or-ed with ring bit (context_index + i) % context_length.
RECURSIVE Unpack(_, _, _, _)
Unpack(coder, K, buffer, i) ==
  IF i >= K THEN buffer
  ELSE LET bit_pos   == (coder.context_index + i) % K
           bit_value == RingBit(coder, bit_pos \div 8, 7 - (bit_pos % 8))
       IN Unpack(coder, K,
                 IF bit_value = 1 /\ BufBit(buffer, i) = 0
                 THEN [buffer EXCEPT ![(i \div 8) + 1] = @ + 2^(7 - (i % 8))]
                 ELSE buffer,
                 i + 1)

\* get_current_context_buffer: the first (K + 7) / 8 bytes of the caller's
\* buffer afterwards, zeroed and then filled oldest bit first.
get_current_context_buffer(coder, K) ==
  Unpack(coder, K, [b \in 1..((K + 7) \div 8) |-> 0], 0)

\* The count a predictor makes of the ones of a contiguous context of K
\* bits, as example_get_probability_fixed of compression/c scans it.
ScanOnes(context, K) ==
  Cardinality({i \in 0..(K - 1) : BufBit(context, i) = 1})

\* The value a predictor of the ones of the context and of K returns to
\* the coder of compression/c.
naive_get_probability(f, coder, K) ==
  get_probability(f, U32(ScanOnes(get_current_context_buffer(coder, K), K)),
                  U32(K))

\* The scaled_p0 the coder of compression/c computes from it: the clamp
\* first.
naive_scaled_p0(f, coder, K) ==
  ScaledP0(clamp_probability_fixed_branching(naive_get_probability(f, coder, K)))

\* A pass of the renormalization loop of arithmetic_encode of compression/c.
naive_EncodeRescale(coder, rule) ==
  CASE rule = "low"  ->
         Rescale(naive_output_following_bits(naive_output_bit(coder, 0), 1), rule)
    [] rule = "high" ->
         Rescale(naive_output_following_bits(naive_output_bit(coder, 1), 0), rule)
    [] rule = "mid"  ->
         Rescale([coder EXCEPT !.bits_to_follow = coder.bits_to_follow + 1], rule)

\* The final bits of arithmetic_encode of compression/c.
naive_FinalBits(coder) ==
  IF WLt(coder.low, QUARTER)
  THEN naive_output_following_bits(naive_output_bit(coder, 0), 1)
  ELSE naive_output_following_bits(naive_output_bit(coder, 1), 0)

\* The next step of a call c of arithmetic_encode of compression/c, in the
\* steps of encode_step.
naive_encode_step(c) ==
  CASE c.pc = "start" ->
         [c EXCEPT !.coder = InitCoder(c.size, INITIAL_OUTPUT_CAPACITY,
                                       c.context_length),
                   !.i = 0, !.pc = "enc"]
    [] c.pc = "enc" /\ c.i < c.length ->
         [c EXCEPT !.coder =
                      Narrow(c.coder, BufBit(c.sequence, c.i),
                             naive_scaled_p0(c.pf, c.coder, c.context_length)),
                   !.pc = "enc_renorm"]
    [] c.pc = "enc" /\ c.i >= c.length ->
         [c EXCEPT !.coder =
                      naive_flush_output(naive_FinalBits(
                        [c.coder EXCEPT !.bits_to_follow =
                                           c.coder.bits_to_follow + 1])),
                   !.pc = "encoded"]
    [] c.pc = "enc_renorm" /\ Rule(c.coder) # "none" ->
         [c EXCEPT !.coder = naive_EncodeRescale(c.coder, Rule(c.coder))]
    [] c.pc = "enc_renorm" /\ Rule(c.coder) = "none" ->
         [c EXCEPT !.coder = naive_update_context_ring_buffer(
                                c.coder, BufBit(c.sequence, c.i)),
                   !.i = c.i + 1, !.pc = "enc"]
    [] OTHER -> c

\* scaled_value of the decoder of compression/c, a uint64_t, for range # 0.
naive_ScaledValue(coder) ==
  WDiv(WSub(WMul(WAdd(WSub(coder.value, coder.low), W1), TOTAL_FREQUENCY),
            Ext(W1, 4)),
       Range(coder))

\* The loop body of arithmetic_decode of compression/c up to its
\* renormalization loop: the decision, the narrowing, the bit stored and
\* the context updated.
naive_DecodeDecide(c) ==
  IF IsZero(Range(c.coder)) THEN [c EXCEPT !.pc = "ub"]
  ELSE LET sp0 == naive_scaled_p0(c.pf, c.coder, c.context_length)
           bit == IF WLt(naive_ScaledValue(c.coder), Ext(sp0, 4)) THEN 0 ELSE 1
       IN [c EXCEPT !.scaled_p0 = sp0,
                    !.decoded = BufWrite(c.decoded, c.i, bit),
                    !.coder = naive_update_context_ring_buffer(
                                Narrow(c.coder, bit, sp0), bit),
                    !.pc = "dec_renorm"]

\* The next step of a call c of arithmetic_decode of compression/c.
naive_decode_step(c) ==
  CASE c.pc = "dec" /\ c.i < c.length -> naive_DecodeDecide(c)
    [] c.pc \in {"dec_start", "dec_prime", "dec_renorm"}
       \/ (c.pc = "dec" /\ c.i >= c.length) -> decode_step(c)
    [] OTHER -> c

naive_call_step(c) ==
  IF c.pc \in {"start", "enc", "enc_renorm"} THEN naive_encode_step(c)
  ELSE naive_decode_step(c)

\* The two coders side by side on the same arguments: a call of the
\* glorious/c function and a call of the compression/c function, each with
\* the values its predictor has returned so far.
Refining(g, n) ==
  <<[call |-> g, issued |-> <<>>], [call |-> n, issued |-> <<>>]>>

\* Whether the next step of a call asks the predictor.
Asks(c) == c.pc \in {"enc", "dec"} /\ c.i < c.length

\* The encodes of every input of up to MaxN bits with every context length
\* up to MaxK, with any predictor of the number of ones and of K.
InitRefine ==
  /\ pc = "refine"
  /\ py = NoPy
  /\ build = 4 /\ calls = 0 /\ tally = NoTally
  /\ pf \in Conforming \cup NonConforming
  /\ length \in 0..MaxN /\ context_length \in SmallContexts
  /\ sequence \in Inputs(length, {0})
  /\ inst = Refining(EncodeCallOf(build, sequence, length, context_length, pf),
                     EncodeCallOf(build, sequence, length, context_length, pf))
  /\ enc = ZeroCoder(build) /\ enc_i = 0
  /\ encoded = <<>> /\ encoded_length = 0
  /\ decoded = <<>> /\ decoded0 = <<>>
  /\ dec = ZeroCoder(build) /\ dec_i = 0 /\ bit_index = 0 /\ prime_i = 0
  /\ p1_fixed = <<0, 0>> /\ scaled_p0 = <<0, 0>> /\ scaled_value = <<0, 0>>
  /\ enc_queries = <<>> /\ dec_queries = <<>> /\ enc_hist = <<>>

\* Each call that has not returned takes its next step.
RefineStep ==
  /\ pc = "refine"
  /\ \E t \in {1, 2} : ~Returned(inst[t].call)
  /\ inst' =
       <<[call |-> call_step(inst[1].call),
          issued |-> IF Asks(inst[1].call)
                     THEN Append(inst[1].issued,
                                 get_probability(pf, Query(inst[1].call.coder)[1],
                                                 Query(inst[1].call.coder)[2]))
                     ELSE inst[1].issued],
         [call |-> naive_call_step(inst[2].call),
          issued |-> IF Asks(inst[2].call)
                     THEN Append(inst[2].issued,
                                 naive_get_probability(pf, inst[2].call.coder,
                                                       context_length))
                     ELSE inst[2].issued]>>
  /\ UNCHANGED <<pc, build, sequence, pf, calls, tally, length, context_length, py,
                 encVars, decVars, loopVars>>

\* Both encodes have returned: each coder decodes its own bytes into a
\* zeroed buffer.
RefineDecode ==
  /\ pc = "refine"
  /\ \A t \in {1, 2} : inst[t].call.pc = "encoded"
  /\ inst' =
       [t \in {1, 2} |->
          [call |-> DecodeCallOf(build, inst[t].call.coder.output,
                                 [k \in 1..((length + 7) \div 8) |-> 0],
                                 length, context_length, pf),
           issued |-> inst[t].issued]]
  /\ UNCHANGED <<pc, build, sequence, pf, calls, tally, length, context_length, py,
                 encVars, decVars, loopVars>>

NextRefine == RefineStep \/ RefineDecode

SpecRefine == InitRefine /\ [][NextRefine]_vars

\* C36 -- The coder that hands the predictor (count_ones, K) and the older
\* coder that unpacks the ring and lets the predictor rescan it agree, for
\* every input, N, K and every predictor of the number of ones and of K: at
\* the return of both encodes and of both decodes the two have asked the
\* predictor the same number of times and got the same values, the encoded
\* bytes are identical and the decoded bits are identical.
RefinesNaive ==
  (pc = "refine" /\ \A t \in {1, 2} : Returned(inst[t].call)) =>
    /\ inst[1].call.pc = inst[2].call.pc
    /\ inst[1].issued = inst[2].issued
    /\ inst[1].call.pc = "encoded" =>
         inst[1].call.coder.output = inst[2].call.coder.output
    /\ inst[1].call.pc = "done" =>
         inst[1].call.decoded = inst[2].call.decoded

\* The same for the predictors that keep to [1, FIXED_SCALE - 1], where the
\* clamp of the older coder changes nothing.
RefinesNaiveInRange == pf \in Conforming => RefinesNaive

\* ---------------------------------------------------------------------
\* test_arithmetic_coding
\* ---------------------------------------------------------------------

\* memcmp(a, b, n) == 0 on the first n bytes of two buffers.
SameBytes(a, b, n) == \A k \in 1..n : a[k] = b[k]

\* A call of test_arithmetic_coding about to start: the call of
\* arithmetic_encode it makes first, and no verdict yet.
InitTest ==
  /\ pc = "test"
  /\ py = NoPy
  /\ build = 4 /\ calls = 0 /\ tally = NoTally
  /\ pf \in Conforming
  /\ length \in 0..MaxN /\ context_length \in SmallContexts
  /\ sequence \in Inputs(length, {0, 1})
  /\ inst = [call |-> EncodeCallOf(build, sequence, length, context_length, pf),
             match |-> -1]
  /\ enc = ZeroCoder(build) /\ enc_i = 0
  /\ encoded = <<>> /\ encoded_length = 0
  /\ decoded = <<>> /\ decoded0 = <<>>
  /\ dec = ZeroCoder(build) /\ dec_i = 0 /\ bit_index = 0 /\ prime_i = 0
  /\ p1_fixed = <<0, 0>> /\ scaled_p0 = <<0, 0>> /\ scaled_value = <<0, 0>>
  /\ enc_queries = <<>> /\ dec_queries = <<>> /\ enc_hist = <<>>

\* The call of arithmetic_encode or of arithmetic_decode in progress takes
\* its next step.
TestStep ==
  /\ pc = "test" /\ ~Returned(inst.call)
  /\ inst' = [inst EXCEPT !.call = call_step(inst.call)]
  /\ UNCHANGED <<pc, build, sequence, pf, calls, tally, length, context_length, py,
                 encVars, decVars, loopVars>>

\* arithmetic_encode has returned: "Encoding failed" and 0 for an empty
\* result; else calloc((length + 7) / 8, 1), which may give NULL for a size
\* of zero, and then 0 is returned; else arithmetic_decode is called on
\* the zeroed buffer.
TestDecode ==
  /\ pc = "test" /\ inst.call.pc = "encoded"
  /\ \E decoded_output \in
          (IF (length + 7) \div 8 = 0 THEN {"null", "block"} ELSE {"block"}) :
       IF EncodingFailed(inst.call.coder) \/ decoded_output = "null"
       THEN /\ inst' = [inst EXCEPT !.match = 0]
            /\ pc' = "test_done"
       ELSE /\ inst' = [inst EXCEPT !.call =
                          DecodeCallOf(build, inst.call.coder.output,
                                       [k \in 1..((length + 7) \div 8) |-> 0],
                                       length, context_length, pf)]
            /\ pc' = pc
  /\ UNCHANGED <<build, sequence, pf, calls, tally, length, context_length, py,
                 encVars, decVars, loopVars>>

\* arithmetic_decode has returned: match is the memcmp of the first
\* (length + 7) / 8 bytes of sequence and decoded_output, and is returned.
TestReturn ==
  /\ pc = "test" /\ inst.call.pc = "done"
  /\ inst' = [inst EXCEPT !.match =
                IF SameBytes(sequence, inst.call.decoded, (length + 7) \div 8)
                THEN 1 ELSE 0]
  /\ pc' = "test_done"
  /\ UNCHANGED <<build, sequence, pf, calls, tally, length, context_length, py,
                 encVars, decVars, loopVars>>

NextTest == TestStep \/ TestDecode \/ TestReturn

SpecTest == InitTest /\ [][NextTest]_vars

\* C37 -- test_arithmetic_coding returns 1 exactly when the decode matches
\* the original sequence, that is when decoded bits 0..N-1 equal input bits
\* 0..N-1, and 0 otherwise, for every input buffer and every N, whatever
\* the bits of the last input byte beyond position N-1 are.
TestVerdict ==
  (pc = "test_done" /\ inst.call.pc = "done") =>
    (inst.match = 1 <=> SameBits(sequence, inst.call.decoded, length))

\* The same with the bits beyond position N-1 of the input all 0 and the
\* decoded buffer allocated.
TestVerdictCanonical ==
  (pc = "test_done" /\ inst.call.pc = "done" /\ sequence = Canon(sequence, length))
    => (inst.match = 1 <=> SameBits(sequence, inst.call.decoded, length))

\* ---------------------------------------------------------------------
\* output_following_bits, batched and one bit at a time
\* ---------------------------------------------------------------------

\* The largest bits_to_follow tried: enough to fill the accumulator, store
\* two whole bytes and start another.
MaxFollow == 17

\* output_bit(coder, bit) called n times.
RECURSIVE output_bit_times(_, _, _)
output_bit_times(coder, bit, n) ==
  IF n = 0 THEN coder ELSE output_bit_times(output_bit(coder, bit), bit, n - 1)

\* The coders output_following_bits is called on: any accumulator with
\* 0 <= bit_count < 8, any pending count up to MaxFollow, no byte or one
\* byte written so far.
FollowCoders ==
  { [InitCoder(4, INITIAL_OUTPUT_CAPACITY, 0) EXCEPT
       !.bit_count = n, !.bit_buffer = b, !.bits_to_follow = f,
       !.output = out, !.output_size = Len(out)]
    : n \in 0..7, b \in {0, 85, 255}, f \in 0..MaxFollow,
      out \in {<<>>, <<170>>} }

\* A call of output_following_bits(coder, bit) about to start; inst keeps
\* the coder and the bit it was called with.
InitFollow ==
  /\ pc = "follow"
  /\ py = NoPy
  /\ build = 4 /\ pf = "example" /\ calls = 0 /\ tally = NoTally
  /\ length = 0 /\ context_length = 0 /\ sequence = <<>>
  /\ enc \in FollowCoders /\ enc_i = 0
  /\ \E bit \in 0..3 : inst = [coder |-> enc, bit |-> bit]
  /\ encoded = <<>> /\ encoded_length = 0
  /\ decoded = <<>> /\ decoded0 = <<>>
  /\ dec = ZeroCoder(build) /\ dec_i = 0 /\ bit_index = 0 /\ prime_i = 0
  /\ p1_fixed = <<0, 0>> /\ scaled_p0 = <<0, 0>> /\ scaled_value = <<0, 0>>
  /\ enc_queries = <<>> /\ dec_queries = <<>> /\ enc_hist = <<>>

\* count = coder->bits_to_follow, and the return for a count of zero;
\* enc_i holds the local count.
FollowEnter ==
  /\ pc = "follow"
  /\ enc_i' = enc.bits_to_follow
  /\ pc' = IF enc.bits_to_follow = 0 THEN "followed" ELSE "follow_loop"
  /\ UNCHANGED <<callVars, decVars, loopVars, enc, enc_queries, enc_hist>>

\* A pass of the while loop: a batch of bits shifted in, and the byte
\* stored when the accumulator is full.
FollowPass ==
  /\ pc = "follow_loop" /\ enc_i > 0
  /\ LET room == 8 - enc.bit_count
         bits_to_write == IF enc_i < room THEN enc_i ELSE room
         c == ShiftInN(enc, inst.bit, bits_to_write)
     IN /\ enc' = IF c.bit_count = 8 THEN PushByte(c) ELSE c
        /\ enc_i' = enc_i - bits_to_write
  /\ UNCHANGED <<pc, callVars, decVars, loopVars, enc_queries, enc_hist>>

\* The loop is left and bits_to_follow is cleared.
FollowExit ==
  /\ pc = "follow_loop" /\ enc_i = 0
  /\ enc' = [enc EXCEPT !.bits_to_follow = 0]
  /\ pc' = "followed"
  /\ UNCHANGED <<callVars, decVars, loopVars, enc_i, enc_queries, enc_hist>>

NextFollow == FollowEnter \/ FollowPass \/ FollowExit

SpecFollow == InitFollow /\ [][NextFollow]_vars

\* What output_following_bits and the one-bit-at-a-time version are
\* compared on.
Emitted(coder) ==
  <<coder.output, coder.output_size, coder.bit_buffer, coder.bit_count>>

\* A pass of the loop takes the count down, and the call does not go back.
FollowAdvances ==
  /\ (pc = "follow_loop" /\ pc' = "follow_loop") => enc_i' < enc_i
  /\ pc = "followed" => pc' = "followed"

\* C38 -- The batched output_following_bits is equivalent to calling
\* output_bit(bit) bits_to_follow times: from any state with
\* 0 <= bit_count < 8 it returns with the same output bytes, output_size,
\* bit_buffer and bit_count as the one-bit-at-a-time version (output_bit
\* repeated, and the loop of compression/c), with bits_to_follow = 0, and
\* it terminates: every pass of its loop takes the count of bits left down
\* and a pass or the exit is always possible until it has returned.
BatchedFollowing ==
  /\ [](pc = "followed" =>
          /\ Emitted(enc) =
               Emitted(output_bit_times(inst.coder, inst.bit,
                                        inst.coder.bits_to_follow))
          /\ Emitted(enc) =
               Emitted(naive_output_following_bits(inst.coder, inst.bit))
          /\ naive_output_following_bits(inst.coder, inst.bit).bits_to_follow = 0
          /\ enc.bits_to_follow = 0
          /\ enc = output_following_bits(inst.coder, inst.bit))
  /\ [](pc = "follow_loop" => enc_i >= 0 /\ enc.bit_count < 8)
  /\ [][FollowAdvances]_vars

BatchedFollowingReached ==
  /\ pc = "followed"
  /\ inst.coder.bit_count = 5 /\ inst.coder.bits_to_follow = MaxFollow
  /\ inst.bit = 1
  /\ enc.output_size = inst.coder.output_size + 2
  /\ enc.bit_count = (5 + MaxFollow) % 8

====
